---- MODULE Spec2Model ----
(***************************************************************************)
(* Model of yolo-ex: request validation, kwargs construction, the export   *)
(* backend adapter, the export CLI, the preflight check and the platform   *)
(* package check.                                                          *)
(*                                                                         *)
(* Text is modelled as a sequence of tokens (words and punctuation), so    *)
(* that "the message contains ..." is a subsequence test.  A Path is a     *)
(* sequence of components, each component a sequence of tokens.  An        *)
(* optional value is None (the empty tuple) or Some(v) (a 1-tuple).        *)
(* Numbers given on the command line are modelled on the integer grid      *)
(* -1..MaxNum; --workspace is a float in the program and is modelled on    *)
(* the same grid (its only use is the comparison with zero).               *)
(***************************************************************************)
EXTENDS FiniteSets, Integers, Sequences, TLC

VARIABLES
    platform,     \* [system, machine]: what py_platform.system()/machine() return
    importable,   \* modules the import system can load from the installation
    dists,        \* distribution name -> installed version (None when no metadata)
    files,        \* paths that exist on the filesystem
    lib,          \* how the external library behaves when it is called
    req,          \* the ExportRequest of this invocation (the parsed arguments)
    sys_modules,  \* sys.modules: module name -> the module object registered
    call          \* the last top-level invocation and everything it produced

vars == <<platform, importable, dists, files, lib, req, sys_modules, call>>

env == <<platform, importable, dists, files, lib, req>>

-----------------------------------------------------------------------------
(* Bounds *)

\* Command-line numbers range over -1..MaxNum.
MaxNum == 1

-----------------------------------------------------------------------------
(* Generic helpers *)

None == <<>>

Some(v) == <<v>>

IsSet(opt) == Len(opt) = 1

Get(opt) == opt[1]

\* Python sub in text on token sequences.
Contains(text, sub) ==
    \E i \in 0..(Len(text) - Len(sub)) : SubSeq(text, i + 1, i + Len(sub)) = sub

\* str.lower(), token by token.
lower_token(t) ==
    CASE t = "PT" -> "pt"
      [] t = "Pt" -> "pt"
      [] t = "ONNX" -> "onnx"
      [] t = "Darwin" -> "darwin"
      [] t = "Linux" -> "linux"
      [] t = "Windows" -> "windows"
      [] t = "ARM64" -> "arm64"
      [] t = "AMD64" -> "amd64"
      [] OTHER -> t

lower(s) == [i \in DOMAIN s |-> lower_token(s[i])]

Numbers == (0 - 1)..MaxNum

-----------------------------------------------------------------------------
(* pathlib.Path *)

\* Path.name: the final component.
path_name(p) == p[Len(p)]

\* Index of the last "." token of a name, 0 when there is none (str.rfind).
rfind_dot(name) ==
    IF \E i \in DOMAIN name : name[i] = "."
    THEN CHOOSE i \in DOMAIN name :
            /\ name[i] = "."
            /\ \A j \in DOMAIN name : name[j] = "." => j <= i
    ELSE 0

\* Path.suffix: the final component's last dot and what follows it, empty when
\* the name has no dot, starts with its only dot or ends with the dot.
path_suffix(p) ==
    LET name == path_name(p)
        i == rfind_dot(name)
    IN  IF 1 < i /\ i < Len(name) THEN SubSeq(name, i, Len(name)) ELSE <<>>

\* Path.stem: the final component without its suffix.
path_stem(p) ==
    LET name == path_name(p)
        i == rfind_dot(name)
    IN  IF 1 < i /\ i < Len(name) THEN SubSeq(name, 1, i - 1) ELSE name

RECURSIVE join_parts(_)
join_parts(p) ==
    IF Len(p) = 0 THEN <<>>
    ELSE IF Len(p) = 1 THEN p[1]
    ELSE p[1] \o <<"/">> \o join_parts(Tail(p))

\* str(path): the components joined by the separator.
path_str(p) == join_parts(p)

\* Path.exists()
path_exists(p) == p \in files

-----------------------------------------------------------------------------
(* errors.py, models.py *)

ExportValidationError == "ExportValidationError"

ExportExecutionError == "ExportExecutionError"

ImportError == "ImportError"

COREML == "coreml"

ENGINE == "engine"

ExportFormat == {COREML, ENGINE}

\* What a call produced: a returned value or a raised exception.
Return(v) == [kind |-> "return", exc |-> "", msg |-> <<>>, value |-> v]

Raise(e, m) == [kind |-> "raise", exc |-> e, msg |-> m, value |-> None]

Returned(o) == o.kind = "return"

Raised(o, e) == o.kind = "raise" /\ o.exc = e

ExportRequest(model_path, format, output_dir, imgsz, device, half, int8, batch, workspace, nms, verbose, dry_run) ==
    [model_path |-> model_path, format |-> format, output_dir |-> output_dir,
     imgsz |-> imgsz, device |-> device, half |-> half, int8 |-> int8,
     batch |-> batch, workspace |-> workspace, nms |-> nms, verbose |-> verbose,
     dry_run |-> dry_run]

ExportResult(format, input_model, output_path, backend, details) ==
    [format |-> format, input_model |-> input_model, output_path |-> output_path,
     backend |-> backend, details |-> details]

-----------------------------------------------------------------------------
(* exporter.py: validate_request, build_export_kwargs *)

\* Variants of validate_request with one rule moved or dropped.
validate_request_suffix_first(request) ==
    IF lower(path_suffix(request.model_path)) # <<".", "pt">>
    THEN Raise(ExportValidationError,
               <<"Input", "model", "must", "use", "the", ".", "pt", "extension", ".">>)
    ELSE IF ~path_exists(request.model_path)
    THEN Raise(ExportValidationError,
               <<"Model", "file", "not", "found", ":">> \o path_str(request.model_path))
    ELSE IF request.imgsz <= 0
    THEN Raise(ExportValidationError,
               <<"--", "imgsz", "must", "be", "greater", "than", "zero", ".">>)
    ELSE IF IsSet(request.batch) /\ Get(request.batch) <= 0
    THEN Raise(ExportValidationError,
               <<"--", "batch", "must", "be", "greater", "than", "zero", ".">>)
    ELSE IF IsSet(request.workspace) /\ Get(request.workspace) <= 0
    THEN Raise(ExportValidationError,
               <<"--", "workspace", "must", "be", "greater", "than", "zero", ".">>)
    ELSE IF request.format = COREML /\ IsSet(request.workspace)
    THEN Raise(ExportValidationError,
               <<"--", "workspace", "is", "only", "valid", "with", "--", "format",
                 "engine", ".">>)
    ELSE Return(None)

validate_request_imgsz_first(request) ==
    IF ~path_exists(request.model_path)
    THEN Raise(ExportValidationError,
               <<"Model", "file", "not", "found", ":">> \o path_str(request.model_path))
    ELSE IF request.imgsz <= 0
    THEN Raise(ExportValidationError,
               <<"--", "imgsz", "must", "be", "greater", "than", "zero", ".">>)
    ELSE IF lower(path_suffix(request.model_path)) # <<".", "pt">>
    THEN Raise(ExportValidationError,
               <<"Input", "model", "must", "use", "the", ".", "pt", "extension", ".">>)
    ELSE IF IsSet(request.batch) /\ Get(request.batch) <= 0
    THEN Raise(ExportValidationError,
               <<"--", "batch", "must", "be", "greater", "than", "zero", ".">>)
    ELSE IF IsSet(request.workspace) /\ Get(request.workspace) <= 0
    THEN Raise(ExportValidationError,
               <<"--", "workspace", "must", "be", "greater", "than", "zero", ".">>)
    ELSE IF request.format = COREML /\ IsSet(request.workspace)
    THEN Raise(ExportValidationError,
               <<"--", "workspace", "is", "only", "valid", "with", "--", "format",
                 "engine", ".">>)
    ELSE Return(None)

validate_request_no_coreml_rule(request) ==
    IF ~path_exists(request.model_path)
    THEN Raise(ExportValidationError,
               <<"Model", "file", "not", "found", ":">> \o path_str(request.model_path))
    ELSE IF lower(path_suffix(request.model_path)) # <<".", "pt">>
    THEN Raise(ExportValidationError,
               <<"Input", "model", "must", "use", "the", ".", "pt", "extension", ".">>)
    ELSE IF request.imgsz <= 0
    THEN Raise(ExportValidationError,
               <<"--", "imgsz", "must", "be", "greater", "than", "zero", ".">>)
    ELSE IF IsSet(request.batch) /\ Get(request.batch) <= 0
    THEN Raise(ExportValidationError,
               <<"--", "batch", "must", "be", "greater", "than", "zero", ".">>)
    ELSE IF IsSet(request.workspace) /\ Get(request.workspace) <= 0
    THEN Raise(ExportValidationError,
               <<"--", "workspace", "must", "be", "greater", "than", "zero", ".">>)
    ELSE Return(None)

validate_request_workspace_before_batch(request) ==
    IF ~path_exists(request.model_path)
    THEN Raise(ExportValidationError,
               <<"Model", "file", "not", "found", ":">> \o path_str(request.model_path))
    ELSE IF lower(path_suffix(request.model_path)) # <<".", "pt">>
    THEN Raise(ExportValidationError,
               <<"Input", "model", "must", "use", "the", ".", "pt", "extension", ".">>)
    ELSE IF request.imgsz <= 0
    THEN Raise(ExportValidationError,
               <<"--", "imgsz", "must", "be", "greater", "than", "zero", ".">>)
    ELSE IF IsSet(request.workspace) /\ Get(request.workspace) <= 0
    THEN Raise(ExportValidationError,
               <<"--", "workspace", "must", "be", "greater", "than", "zero", ".">>)
    ELSE IF IsSet(request.batch) /\ Get(request.batch) <= 0
    THEN Raise(ExportValidationError,
               <<"--", "batch", "must", "be", "greater", "than", "zero", ".">>)
    ELSE IF request.format = COREML /\ IsSet(request.workspace)
    THEN Raise(ExportValidationError,
               <<"--", "workspace", "is", "only", "valid", "with", "--", "format",
                 "engine", ".">>)
    ELSE Return(None)

validate_request(request) ==
    IF ~path_exists(request.model_path)
    THEN Raise(ExportValidationError,
               <<"Model", "file", "not", "found", ":">> \o path_str(request.model_path))
    ELSE IF lower(path_suffix(request.model_path)) # <<".", "pt">>
    THEN Raise(ExportValidationError,
               <<"Input", "model", "must", "use", "the", ".", "pt", "extension", ".">>)
    ELSE IF request.imgsz <= 0
    THEN Raise(ExportValidationError,
               <<"--", "imgsz", "must", "be", "greater", "than", "zero", ".">>)
    ELSE IF IsSet(request.batch) /\ Get(request.batch) <= 0
    THEN Raise(ExportValidationError,
               <<"--", "batch", "must", "be", "greater", "than", "zero", ".">>)
    ELSE IF IsSet(request.workspace) /\ Get(request.workspace) <= 0
    THEN Raise(ExportValidationError,
               <<"--", "workspace", "must", "be", "greater", "than", "zero", ".">>)
    ELSE IF request.format = COREML /\ IsSet(request.workspace)
    THEN Raise(ExportValidationError,
               <<"--", "workspace", "is", "only", "valid", "with", "--", "format",
                 "engine", ".">>)
    ELSE Return(None)

\* A dict: a function from its keys.  d1 @@ d2 keeps d1's entries, so an
\* assignment kwargs[k] = v is (k :> v) @@ kwargs.
EmptyDict == [k \in {} |-> None]

\* Variant of build_export_kwargs that passes the device for every format.
build_export_kwargs_device_always(request) ==
    LET base == ("imgsz" :> request.imgsz) @@ ("half" :> request.half)
                @@ ("int8" :> request.int8) @@ ("nms" :> request.nms)
        out == IF request.output_dir # None
               THEN ("project" :> path_str(Get(request.output_dir)))
                    @@ ("name" :> path_stem(request.model_path))
               ELSE EmptyDict
        device == IF request.device # None
                  THEN "device" :> Get(request.device) ELSE EmptyDict
        batch == IF request.format = ENGINE /\ request.batch # None
                 THEN "batch" :> Get(request.batch) ELSE EmptyDict
        workspace == IF request.format = ENGINE /\ request.workspace # None
                     THEN "workspace" :> Get(request.workspace) ELSE EmptyDict
    IN  base @@ out @@ device @@ batch @@ workspace

\* Variant of build_export_kwargs that sets project and name for ENGINE only.
build_export_kwargs_project_for_engine_only(request) ==
    LET base == ("imgsz" :> request.imgsz) @@ ("half" :> request.half)
                @@ ("int8" :> request.int8) @@ ("nms" :> request.nms)
        out == IF request.format = ENGINE /\ request.output_dir # None
               THEN ("project" :> path_str(Get(request.output_dir)))
                    @@ ("name" :> path_stem(request.model_path))
               ELSE EmptyDict
        device == IF request.format = ENGINE /\ request.device # None
                  THEN "device" :> Get(request.device) ELSE EmptyDict
        batch == IF request.format = ENGINE /\ request.batch # None
                 THEN "batch" :> Get(request.batch) ELSE EmptyDict
        workspace == IF request.format = ENGINE /\ request.workspace # None
                     THEN "workspace" :> Get(request.workspace) ELSE EmptyDict
    IN  base @@ out @@ device @@ batch @@ workspace

build_export_kwargs(request) ==
    LET base == ("imgsz" :> request.imgsz) @@ ("half" :> request.half)
                @@ ("int8" :> request.int8) @@ ("nms" :> request.nms)
        out == IF request.output_dir # None
               THEN ("project" :> path_str(Get(request.output_dir)))
                    @@ ("name" :> path_stem(request.model_path))
               ELSE EmptyDict
        device == IF request.format = ENGINE /\ request.device # None
                  THEN "device" :> Get(request.device) ELSE EmptyDict
        batch == IF request.format = ENGINE /\ request.batch # None
                 THEN "batch" :> Get(request.batch) ELSE EmptyDict
        workspace == IF request.format = ENGINE /\ request.workspace # None
                     THEN "workspace" :> Get(request.workspace) ELSE EmptyDict
    IN  base @@ out @@ device @@ batch @@ workspace

-----------------------------------------------------------------------------
(* importlib and sys.modules *)

\* importlib.import_module(name) succeeds when the module is registered in
\* sys.modules or can be loaded; otherwise it raises ImportError.
import_ok(name, modules) == name \in DOMAIN modules \/ name \in importable

\* sys.modules after import_module(name): a loaded module is registered under
\* its own name; a failed import leaves the table as it was.
import_module(name, modules) ==
    IF name \in DOMAIN modules THEN modules
    ELSE IF name \in importable THEN (name :> name) @@ modules
    ELSE modules

\* dict.setdefault(key, value)
setdefault(d, key, value) == IF key \in DOMAIN d THEN d ELSE (key :> value) @@ d

-----------------------------------------------------------------------------
(* json.dumps(kwargs, sort_keys=True), as tokens *)

\* The kwargs keys in sorted order.
SortedKeys ==
    <<"batch", "device", "half", "imgsz", "int8", "name", "nms", "project", "workspace">>

\* The JSON text of one value; the Python type of a value is fixed by its key.
json_value(k, v) ==
    CASE k \in {"half", "int8", "nms"} -> IF v THEN <<"true">> ELSE <<"false">>
      [] k \in {"imgsz", "batch"} -> <<ToString(v)>>
      [] k = "workspace" -> <<ToString(v), ".", "0">>
      [] k = "device" -> <<"\"", v, "\"">>
      [] k \in {"project", "name"} -> <<"\"">> \o v \o <<"\"">>

RECURSIVE json_items(_, _)
json_items(keys, d) ==
    IF keys = <<>> THEN <<>>
    ELSE <<"\"", Head(keys), "\"", ":">> \o json_value(Head(keys), d[Head(keys)])
         \o (IF Tail(keys) = <<>> THEN <<>> ELSE <<",">> \o json_items(Tail(keys), d))

json_dumps(d) ==
    <<"{">> \o json_items(SelectSeq(SortedKeys, LAMBDA k : k \in DOMAIN d), d) \o <<"}">>

-----------------------------------------------------------------------------
(* exporter.py: export_model and its helpers *)

\* What a step hands back: its outcome, sys.modules after it, the steps it
\* went through, and the call the external library received (None if none).
Step(outcome, modules, events, lib_call) ==
    [outcome |-> outcome, modules |-> modules, events |-> events, lib_call |-> lib_call]

\* Variant of _ensure_tensorrt_module_compat that prefers tensorrt_bindings.
_ensure_tensorrt_module_compat_bindings_first(modules) ==
    IF import_ok("tensorrt_bindings", modules)
    THEN LET loaded == import_module("tensorrt_bindings", modules) IN
         Step(Return(None), setdefault(loaded, "tensorrt", loaded["tensorrt_bindings"]),
              <<"_ensure_tensorrt_module_compat", "import tensorrt_bindings",
                "alias tensorrt">>, None)
    ELSE Step(Return(None), import_module("tensorrt", modules),
              <<"_ensure_tensorrt_module_compat", "import tensorrt_bindings",
                "import tensorrt">>, None)

_ensure_tensorrt_module_compat(modules) ==
    IF import_ok("tensorrt", modules)
    THEN Step(Return(None), import_module("tensorrt", modules),
              <<"_ensure_tensorrt_module_compat", "import tensorrt">>, None)
    ELSE IF ~import_ok("tensorrt_bindings", modules)
    THEN Step(Return(None), modules,
              <<"_ensure_tensorrt_module_compat", "import tensorrt",
                "import tensorrt_bindings">>, None)
    ELSE LET loaded == import_module("tensorrt_bindings", modules) IN
         Step(Return(None), setdefault(loaded, "tensorrt", loaded["tensorrt_bindings"]),
              <<"_ensure_tensorrt_module_compat", "import tensorrt",
                "import tensorrt_bindings", "alias tensorrt">>, None)

\* from ultralytics import YOLO
_load_yolo_class(modules) ==
    IF import_ok("ultralytics", modules)
    THEN Step(Return("YOLO"), import_module("ultralytics", modules),
              <<"_load_yolo_class">>, None)
    ELSE Step(Raise(ImportError, <<"No", "module", "named", "ultralytics">>), modules,
              <<"_load_yolo_class">>, None)

\* A returned object: its Python type and, for a Path or str, its text.
Object(type, text) == [type |-> type, text |-> text]

_normalize_output_path(exported) ==
    IF exported.type = "Path" THEN Some(exported.text)
    ELSE IF exported.type = "str" THEN Some(exported.text)
    ELSE None

\* The try block of export_model: yolo_cls(str(model_path)) and model.export(...).
call_backend(request, export_kwargs) ==
    LET received == Some([model |-> path_str(request.model_path),
                          format |-> request.format, kwargs |-> export_kwargs])
    IN  IF lib.construct = "raise"
        THEN [outcome |-> Raise("Exception", lib.exc_msg), events |-> <<"YOLO">>,
              lib_call |-> None]
        ELSE IF lib.export = "raise"
        THEN [outcome |-> Raise("Exception", lib.exc_msg),
              events |-> <<"YOLO", "export">>, lib_call |-> received]
        ELSE [outcome |-> Return(lib.exported), events |-> <<"YOLO", "export">>,
              lib_call |-> received]

\* Variant of export_backend_step that leaves nms out of the recorded kwargs.
export_backend_step_records_without_nms(request, export_kwargs, modules, events) ==
    LET done == call_backend(request, export_kwargs)
        recorded == [k \in DOMAIN export_kwargs \ {"nms"} |-> export_kwargs[k]]
    IN  IF ~Returned(done.outcome)
        THEN Step(Raise(ExportExecutionError,
                        <<"Ultralytics", "export", "failed", ":">> \o done.outcome.msg),
                  modules, events \o done.events, done.lib_call)
        ELSE Step(Return(ExportResult(request.format, request.model_path,
                                      _normalize_output_path(done.outcome.value),
                                      "ultralytics",
                                      [dry_run |-> "false",
                                       kwargs |-> json_dumps(recorded)])),
                  modules, events \o done.events \o <<"_normalize_output_path">>,
                  done.lib_call)

\* export_model from the try block on.
export_backend_step(request, export_kwargs, modules, events) ==
    LET done == call_backend(request, export_kwargs) IN
    IF ~Returned(done.outcome)
    THEN Step(Raise(ExportExecutionError,
                    <<"Ultralytics", "export", "failed", ":">> \o done.outcome.msg),
              modules, events \o done.events, done.lib_call)
    ELSE Step(Return(ExportResult(request.format, request.model_path,
                                  _normalize_output_path(done.outcome.value),
                                  "ultralytics",
                                  [dry_run |-> "false",
                                   kwargs |-> json_dumps(export_kwargs)])),
              modules, events \o done.events \o <<"_normalize_output_path">>,
              done.lib_call)

\* Variant of export_real that loads the backend class before the
\* compatibility step.
export_real_loads_before_compat(request, export_kwargs, modules, events) ==
    LET loaded == _load_yolo_class(modules)
        compat == IF request.format = ENGINE
                  THEN _ensure_tensorrt_module_compat(loaded.modules)
                  ELSE Step(Return(None), loaded.modules, <<>>, None)
        sofar == events \o loaded.events \o compat.events
    IN  IF ~Returned(loaded.outcome)
        THEN Step(loaded.outcome, loaded.modules, events \o loaded.events, None)
        ELSE export_backend_step(request, export_kwargs, compat.modules, sofar)

\* export_model after the dry-run return.
export_real(request, export_kwargs, modules, events) ==
    LET compat == IF request.format = ENGINE
                  THEN _ensure_tensorrt_module_compat(modules)
                  ELSE Step(Return(None), modules, <<>>, None)
        loaded == _load_yolo_class(compat.modules)
        sofar == events \o compat.events \o loaded.events
    IN  IF ~Returned(loaded.outcome)
        THEN Step(loaded.outcome, loaded.modules, sofar, None)
        ELSE export_backend_step(request, export_kwargs, loaded.modules, sofar)

\* Variant of export_model without the dry-run return.
export_model_no_dry_run(request, modules) ==
    LET valid == validate_request(request) IN
    IF ~Returned(valid)
    THEN Step(valid, modules, <<"validate_request">>, None)
    ELSE export_real(request, build_export_kwargs(request), modules,
                     <<"validate_request", "build_export_kwargs">>)

export_model(request, modules) ==
    LET valid == validate_request(request) IN
    IF ~Returned(valid)
    THEN Step(valid, modules, <<"validate_request">>, None)
    ELSE LET export_kwargs == build_export_kwargs(request)
             events == <<"validate_request", "build_export_kwargs">>
         IN  IF request.dry_run
             THEN Step(Return(ExportResult(request.format, request.model_path, None,
                                           "ultralytics",
                                           [dry_run |-> "true",
                                            kwargs |-> json_dumps(export_kwargs)])),
                       modules, events, None)
             ELSE export_real(request, export_kwargs, modules, events)

-----------------------------------------------------------------------------
(* platforms.py: detect_platform, preflight_for_format *)

MACOS == "macos"

LINUX_ARM64 == "linux_arm64"

OTHER_PLATFORM == "other"

\* Variant of detect_platform that takes only arm64 Macs and aarch64 Linux.
detect_platform_exact_pairs ==
    LET system == lower_token(platform.system)
        machine == lower_token(platform.machine)
    IN  IF system = "darwin" /\ machine = "arm64" THEN MACOS
        ELSE IF system = "linux" /\ machine = "aarch64" THEN LINUX_ARM64
        ELSE OTHER_PLATFORM

detect_platform ==
    LET system == lower_token(platform.system)
        machine == lower_token(platform.machine)
    IN  IF system = "darwin" THEN MACOS
        ELSE IF system = "linux" /\ machine \in {"aarch64", "arm64"} THEN LINUX_ARM64
        ELSE OTHER_PLATFORM

PreflightResult(target, warnings) == [target |-> target, warnings |-> warnings]

CoremlWarning ==
    <<"CoreML", "export", "is", "intended", "for", "macOS", ".", "Continuing", ",",
      "but", "export", "may", "fail", "on", "this", "platform", ".">>

EngineWarning ==
    <<"TensorRT", "export", "is", "intended", "for", "Jetson", "Orin", "Nano",
      "(", "Linux", "arm64", ")", ".", "Continuing", ",", "but", "export", "may",
      "fail", "on", "this", "platform", ".">>

\* The messages are tokenised without their backquotes.
SystemSitePackagesHint ==
    <<"If", "JetPack", "provides", "system", "Python", "packages", ",", "create",
      "the", "project", "venv", "with", "uv", "venv", "--", "python",
      "/usr/bin/python3", "--", "system-site-packages", "before", "uv",
      "sync", ".">>

CoremltoolsRemedy ==
    <<"CoreML", "export", "requires", "coremltools", ".", "Install", "on",
      "macOS", "with", "uv", "sync", "--", "group", "mac", ".">>

TensorrtRemedy ==
    <<"TensorRT", "export", "requires", "the", "Jetson", "TensorRT", "Python",
      "package", "(", "tensorrt", ")", "and", "a", "compatible",
      "JetPack/TensorRT", "runtime", ".">> \o SystemSitePackagesHint

JetsonRemedy(module) ==
    <<"TensorRT", "export", "on", "Jetson", "requires", module, ".">>
    \o SystemSitePackagesHint

\* Variant of required_modules that asks for the Jetson runtime modules on
\* every platform.
required_modules_jetson_runtime_everywhere(export_format, target) ==
    IF export_format = COREML THEN << <<"coremltools", CoremltoolsRemedy>> >>
    ELSE << <<"tensorrt", TensorrtRemedy>>,
            <<"torch", JetsonRemedy("torch")>>,
            <<"torchvision", JetsonRemedy("torchvision")>>,
            <<"onnxruntime", JetsonRemedy("onnxruntime")>> >>

\* Variant of required_modules that probes torch before tensorrt.
required_modules_torch_first(export_format, target) ==
    IF export_format = COREML THEN << <<"coremltools", CoremltoolsRemedy>> >>
    ELSE IF target = LINUX_ARM64
    THEN << <<"torch", JetsonRemedy("torch")>>,
            <<"tensorrt", TensorrtRemedy>>,
            <<"torchvision", JetsonRemedy("torchvision")>>,
            <<"onnxruntime", JetsonRemedy("onnxruntime")>> >>
    ELSE << <<"tensorrt", TensorrtRemedy>> >>

\* The _require_module calls preflight_for_format makes, in order.
required_modules(export_format, target) ==
    IF export_format = COREML THEN << <<"coremltools", CoremltoolsRemedy>> >>
    ELSE << <<"tensorrt", TensorrtRemedy>> >>
         \o (IF target = LINUX_ARM64
             THEN << <<"torch", JetsonRemedy("torch")>>,
                     <<"torchvision", JetsonRemedy("torchvision")>>,
                     <<"onnxruntime", JetsonRemedy("onnxruntime")>> >>
             ELSE <<>>)

\* _require_module applied to each entry in turn, stopping at the first
\* ImportError, which is re-raised as ExportValidationError(message).
RECURSIVE _require_module(_, _, _)
_require_module(required, modules, events) ==
    IF required = <<>> THEN Step(Return(None), modules, events, None)
    ELSE LET name == Head(required)[1]
             message == Head(required)[2]
             probed == Append(events, "import " \o name)
         IN  IF import_ok(name, modules)
             THEN _require_module(Tail(required), import_module(name, modules), probed)
             ELSE Step(Raise(ExportValidationError, message), modules, probed, None)

\* Variant of preflight_for_format that rejects a format on a platform it
\* is not intended for.
preflight_for_format_rejects_mismatch(export_format, modules) ==
    LET target == detect_platform
        required == _require_module(required_modules(export_format, target), modules,
                                    <<"preflight_for_format">>)
    IN  IF export_format = COREML /\ target # MACOS
        THEN Step(Raise(ExportValidationError, CoremlWarning), modules,
                  <<"preflight_for_format">>, None)
        ELSE IF export_format = ENGINE /\ target # LINUX_ARM64
        THEN Step(Raise(ExportValidationError, EngineWarning), modules,
                  <<"preflight_for_format">>, None)
        ELSE IF ~Returned(required.outcome) THEN required
        ELSE Step(Return(PreflightResult(target, <<>>)), required.modules,
                  required.events, None)

\* Variant of preflight_for_format that takes tensorrt_bindings when tensorrt
\* cannot be imported.
preflight_for_format_accepts_bindings(export_format, modules) ==
    LET target == detect_platform
        warnings == IF export_format = COREML /\ target # MACOS THEN <<CoremlWarning>>
                    ELSE IF export_format = ENGINE /\ target # LINUX_ARM64
                    THEN <<EngineWarning>>
                    ELSE <<>>
        listed == required_modules(export_format, target)
        probed == IF /\ export_format = ENGINE
                     /\ ~import_ok("tensorrt", modules)
                     /\ import_ok("tensorrt_bindings", modules)
                  THEN << <<"tensorrt_bindings", TensorrtRemedy>> >> \o Tail(listed)
                  ELSE listed
        required == _require_module(probed, modules, <<"preflight_for_format">>)
    IN  IF ~Returned(required.outcome) THEN required
        ELSE Step(Return(PreflightResult(target, warnings)), required.modules,
                  required.events, None)

preflight_for_format(export_format, modules) ==
    LET target == detect_platform
        warnings == IF export_format = COREML /\ target # MACOS THEN <<CoremlWarning>>
                    ELSE IF export_format = ENGINE /\ target # LINUX_ARM64
                    THEN <<EngineWarning>>
                    ELSE <<>>
        required == _require_module(required_modules(export_format, target), modules,
                                    <<"preflight_for_format">>)
    IN  IF ~Returned(required.outcome) THEN required
        ELSE Step(Return(PreflightResult(target, warnings)), required.modules,
                  required.events, None)

-----------------------------------------------------------------------------
(* platform_check.py: versions *)

ULTRALYTICS_VERSION == <<"8", ".", "4", ".", "14">>

MACOS_TORCH_VERSION == <<"2", ".", "7", ".", "0">>

MACOS_TORCHVISION_VERSION == <<"0", ".", "22", ".", "0">>

MACOS_COREMLTOOLS_VERSION == <<"9", ".", "0">>

JETSON_TORCH_VERSION ==
    <<"2", ".", "5", ".", "0a0+872d972e41", ".", "nv24", ".", "08">>

JETSON_TORCHVISION_VERSION == <<"0", ".", "20", ".", "0a0+afc54f7">>

JETSON_ONNXRUNTIME_GPU_VERSION == <<"1", ".", "23", ".", "0">>

JETSON_TENSORRT_VERSION == <<"10", ".", "7", ".", "0">>

\* The decimal numerals that occur in the version strings of the model.
Numerals ==
    [t \in {"0", "1", "2", "4", "5", "7", "8", "9", "10", "14", "15", "20", "22", "23"}
        |-> CASE t = "0" -> 0 [] t = "1" -> 1 [] t = "2" -> 2 [] t = "4" -> 4
              [] t = "5" -> 5 [] t = "7" -> 7 [] t = "8" -> 8 [] t = "9" -> 9
              [] t = "10" -> 10 [] t = "14" -> 14 [] t = "15" -> 15
              [] t = "20" -> 20 [] t = "22" -> 22 [] t = "23" -> 23]

\* packaging.version.Version(text), for release-only versions N(.N)*: the
\* text parses iff it is numerals separated by dots.  Any other text of the
\* model's inputs raises InvalidVersion.
version_valid(text) ==
    /\ Len(text) % 2 = 1
    /\ \A i \in DOMAIN text :
          IF i % 2 = 1 THEN text[i] \in DOMAIN Numerals ELSE text[i] = "."

version_release(text) == [i \in 1..((Len(text) + 1) \div 2) |-> Numerals[text[2 * i - 1]]]

\* Version equality compares the release with its trailing zeros dropped.
RECURSIVE strip_trailing_zeros(_)
strip_trailing_zeros(release) ==
    IF release # <<>> /\ release[Len(release)] = 0
    THEN strip_trailing_zeros(SubSeq(release, 1, Len(release) - 1))
    ELSE release

\* Variant of _versions_match that loads packaging before it compares.
_versions_match_needs_packaging(expected_version, installed_version, modules) ==
    IF ~import_ok("packaging", modules) THEN FALSE
    ELSE IF installed_version = expected_version THEN TRUE
    ELSE IF ~version_valid(expected_version) \/ ~version_valid(installed_version)
    THEN FALSE
    ELSE strip_trailing_zeros(version_release(expected_version))
         = strip_trailing_zeros(version_release(installed_version))

\* Variant of _versions_match that compares the strings only.
_versions_match_strings_only(expected_version, installed_version, modules) ==
    installed_version = expected_version

_versions_match(expected_version, installed_version, modules) ==
    IF installed_version = expected_version THEN TRUE
    ELSE IF ~import_ok("packaging", modules) THEN FALSE
    ELSE IF ~version_valid(expected_version) \/ ~version_valid(installed_version)
    THEN FALSE
    ELSE strip_trailing_zeros(version_release(expected_version))
         = strip_trailing_zeros(version_release(installed_version))

\* sys.modules after _versions_match: packaging is imported only when the
\* strings differ.
_versions_match_modules(expected_version, installed_version, modules) ==
    IF installed_version = expected_version THEN modules
    ELSE import_module("packaging", modules)

\* importlib.metadata.version(distribution), None on PackageNotFoundError.
_get_distribution_version(distribution) ==
    IF distribution \in DOMAIN dists THEN dists[distribution] ELSE None

-----------------------------------------------------------------------------
(* platform_check.py: the checks *)

OK == "OK"

MISSING == "MISSING"

MISMATCH == "MISMATCH"

SKIPPED == "SKIPPED"

PackageCheck(label, distribution, import_name, expected_version, installed_version, status, message) ==
    [label |-> label, distribution |-> distribution, import_name |-> import_name,
     expected_version |-> expected_version, installed_version |-> installed_version,
     status |-> status, message |-> message]

\* A check and sys.modules after it.
Checked(check, modules) == [check |-> check, modules |-> modules]

\* str(exc) of the ImportError that importing `name` raises.
ImportErrorText(name) == <<"No", "module", "named", name>>

_check_exact_version(label, distribution, expected_version, modules) ==
    LET installed_version == _get_distribution_version(distribution) IN
    IF installed_version = None
    THEN Checked(PackageCheck(label, Some(distribution), None, Some(expected_version),
                              None, MISSING, <<"distribution", "not", "installed">>),
                 modules)
    ELSE IF ~_versions_match(expected_version, Get(installed_version), modules)
    THEN Checked(PackageCheck(label, Some(distribution), None, Some(expected_version),
                              installed_version, MISMATCH, <<"version", "mismatch">>),
                 _versions_match_modules(expected_version, Get(installed_version), modules))
    ELSE Checked(PackageCheck(label, Some(distribution), None, Some(expected_version),
                              installed_version, OK, <<>>),
                 _versions_match_modules(expected_version, Get(installed_version), modules))

_check_jetson_tensorrt_distribution(modules) ==
    LET distribution == "tensorrt"
        expected == JETSON_TENSORRT_VERSION
        installed_version == _get_distribution_version(distribution)
    IN  IF installed_version = None
        THEN Checked(PackageCheck(<<"TensorRT", "package">>, Some(distribution), None,
                                  Some(expected), None, MISSING,
                                  <<"distribution", "not", "installed">>),
                     modules)
        ELSE IF ~_versions_match(expected, Get(installed_version), modules)
        THEN Checked(PackageCheck(<<"TensorRT", "package">>, Some(distribution), None,
                                  Some(expected), installed_version, MISMATCH,
                                  <<"version", "mismatch">>),
                     _versions_match_modules(expected, Get(installed_version), modules))
        ELSE Checked(PackageCheck(<<"TensorRT", "package">>, Some(distribution), None,
                                  Some(expected), installed_version, OK, <<>>),
                     _versions_match_modules(expected, Get(installed_version), modules))

\* _import_checked_module imports coremltools with its logger silenced and
\* every other module directly; both are one import_module call.
_check_presence_and_import(label, distribution, import_name, modules) ==
    LET installed_version == _get_distribution_version(distribution) IN
    IF installed_version = None
    THEN Checked(PackageCheck(label, Some(distribution), Some(import_name), None, None,
                              MISSING, <<"distribution", "not", "installed">>),
                 modules)
    ELSE IF ~import_ok(import_name, modules)
    THEN Checked(PackageCheck(label, Some(distribution), Some(import_name), None,
                              installed_version, MISSING,
                              <<"installed", "but", "import", "failed", ":">>
                              \o ImportErrorText(import_name)),
                 modules)
    ELSE Checked(PackageCheck(label, Some(distribution), Some(import_name), None,
                              installed_version, OK, <<>>),
                 import_module(import_name, modules))

\* Variant of the presence check that enforces the baseline version.
_check_presence_and_import_enforcing_version(label, distribution, import_name, validated_version, modules) ==
    LET checked == _check_presence_and_import(label, distribution, import_name, modules)
        check == [checked.check EXCEPT !.expected_version = Some(validated_version)]
    IN  IF check.status = OK /\ check.installed_version # Some(validated_version)
        THEN Checked([check EXCEPT !.status = MISMATCH,
                                   !.message = <<"version", "mismatch">>],
                     checked.modules)
        ELSE Checked(check, checked.modules)

_check_presence_and_import_with_validated_version(label, distribution, import_name, validated_version, modules) ==
    LET checked == _check_presence_and_import(label, distribution, import_name, modules)
    IN  Checked([checked.check EXCEPT !.expected_version = Some(validated_version)],
                checked.modules)

\* Variant of _check_import_only that falls back to the <name>_bindings module.
_check_import_only_accepts_bindings(label, import_name, modules) ==
    IF import_ok(import_name, modules) \/ import_ok(import_name \o "_bindings", modules)
    THEN Checked(PackageCheck(label, None, Some(import_name), None, None, OK, <<>>),
                 import_module(import_name, modules))
    ELSE Checked(PackageCheck(label, None, Some(import_name), None, None, MISSING,
                              <<"import", "failed", ":">> \o ImportErrorText(import_name)),
                 modules)

_check_import_only(label, import_name, modules) ==
    IF ~import_ok(import_name, modules)
    THEN Checked(PackageCheck(label, None, Some(import_name), None, None, MISSING,
                              <<"import", "failed", ":">> \o ImportErrorText(import_name)),
                 modules)
    ELSE Checked(PackageCheck(label, None, Some(import_name), None, None, OK, <<>>),
                 import_module(import_name, modules))

\* The checks of a supported target, in the order check_current_platform
\* makes them: [style, label, distribution, import_name, version].
Entry(style, label, distribution, import_name, version) ==
    [style |-> style, label |-> label, distribution |-> distribution,
     import_name |-> import_name, version |-> version]

\* Variant of check_table that checks ultralytics last.
check_table_ultralytics_last(target) ==
    (IF target = MACOS
     THEN <<Entry("presence", <<"torch">>, "torch", "torch", MACOS_TORCH_VERSION),
            Entry("presence", <<"torchvision">>, "torchvision", "torchvision",
                  MACOS_TORCHVISION_VERSION),
            Entry("presence", <<"coremltools">>, "coremltools", "coremltools",
                  MACOS_COREMLTOOLS_VERSION)>>
     ELSE IF target = LINUX_ARM64
     THEN <<Entry("presence", <<"torch">>, "torch", "torch", JETSON_TORCH_VERSION),
            Entry("presence", <<"torchvision">>, "torchvision", "torchvision",
                  JETSON_TORCHVISION_VERSION),
            Entry("presence", <<"onnxruntime">>, "onnxruntime-gpu", "onnxruntime",
                  JETSON_ONNXRUNTIME_GPU_VERSION),
            Entry("jetson_tensorrt", <<"TensorRT", "package">>, "tensorrt", "",
                  JETSON_TENSORRT_VERSION),
            Entry("import", <<"TensorRT", "Python", "import">>, "", "tensorrt", <<>>)>>
     ELSE <<>>)
    \o <<Entry("exact", <<"ultralytics">>, "ultralytics", "", ULTRALYTICS_VERSION)>>

check_table(target) ==
    <<Entry("exact", <<"ultralytics">>, "ultralytics", "", ULTRALYTICS_VERSION)>>
    \o (IF target = MACOS
        THEN <<Entry("presence", <<"torch">>, "torch", "torch", MACOS_TORCH_VERSION),
               Entry("presence", <<"torchvision">>, "torchvision", "torchvision",
                     MACOS_TORCHVISION_VERSION),
               Entry("presence", <<"coremltools">>, "coremltools", "coremltools",
                     MACOS_COREMLTOOLS_VERSION)>>
        ELSE IF target = LINUX_ARM64
        THEN <<Entry("presence", <<"torch">>, "torch", "torch", JETSON_TORCH_VERSION),
               Entry("presence", <<"torchvision">>, "torchvision", "torchvision",
                     JETSON_TORCHVISION_VERSION),
               Entry("presence", <<"onnxruntime">>, "onnxruntime-gpu", "onnxruntime",
                     JETSON_ONNXRUNTIME_GPU_VERSION),
               Entry("jetson_tensorrt", <<"TensorRT", "package">>, "tensorrt", "",
                     JETSON_TENSORRT_VERSION),
               Entry("import", <<"TensorRT", "Python", "import">>, "", "tensorrt", <<>>)>>
        ELSE <<>>)

run_check(entry, modules) ==
    CASE entry.style = "exact" ->
            _check_exact_version(entry.label, entry.distribution, entry.version, modules)
      [] entry.style = "presence" ->
            _check_presence_and_import_with_validated_version(
                entry.label, entry.distribution, entry.import_name, entry.version, modules)
      [] entry.style = "jetson_tensorrt" -> _check_jetson_tensorrt_distribution(modules)
      [] entry.style = "import" -> _check_import_only(entry.label, entry.import_name, modules)

\* The list of checks built entry by entry, each seeing sys.modules as the
\* checks before it left it.
RECURSIVE run_checks(_, _, _)
run_checks(table, checks, modules) ==
    IF table = <<>> THEN Checked(checks, modules)
    ELSE LET checked == run_check(Head(table), modules) IN
         run_checks(Tail(table), Append(checks, checked.check), checked.modules)

PlatformCheckReport(platform_target, platform_details, supported, checks, warnings, ok) ==
    [platform_target |-> platform_target, platform_details |-> platform_details,
     supported |-> supported, checks |-> checks, warnings |-> warnings, ok |-> ok]

UnsupportedWarning ==
    <<"Unsupported", "platform", "for", "yolo-ex", "exports", ".", "Supported",
      "targets", "are", "macOS", "and", "Linux", "arm64", "(", "Jetson", "Orin",
      "Nano", ")", ".">>

\* Variant of check_current_platform whose ok ignores version mismatches.
check_current_platform_ok_ignores_mismatch(modules) ==
    LET target == detect_platform
        details == <<platform.system, platform.machine>>
    IN  IF target = OTHER_PLATFORM
        THEN Step(Return(PlatformCheckReport(target, details, FALSE, <<>>,
                                             <<UnsupportedWarning>>, FALSE)),
                  modules, <<"check_current_platform">>, None)
        ELSE LET checked == run_checks(check_table(target), <<>>, modules)
                 checks == checked.check
                 ok == \A i \in DOMAIN checks : checks[i].status # MISSING
             IN  Step(Return(PlatformCheckReport(target, details, TRUE, checks, <<>>, ok)),
                      checked.modules, <<"check_current_platform">>, None)

check_current_platform(modules) ==
    LET target == detect_platform
        details == <<platform.system, platform.machine>>
    IN  IF target = OTHER_PLATFORM
        THEN Step(Return(PlatformCheckReport(target, details, FALSE, <<>>,
                                             <<UnsupportedWarning>>, FALSE)),
                  modules, <<"check_current_platform">>, None)
        ELSE LET checked == run_checks(check_table(target), <<>>, modules)
                 checks == checked.check
                 ok == \A i \in DOMAIN checks : checks[i].status = OK
             IN  Step(Return(PlatformCheckReport(target, details, TRUE, checks, <<>>, ok)),
                      checked.modules, <<"check_current_platform">>, None)

-----------------------------------------------------------------------------
(* platform_check.py: render_platform_report.  The text is the sequence of *)
(* its lines, each line a sequence of tokens.                              *)

_status_label(report) ==
    IF ~report.supported THEN "UNSUPPORTED"
    ELSE IF report.ok THEN "OK"
    ELSE "FAILED"

\* Variant of _should_render_check that also hides the checks that import
\* nothing.
_should_render_check_hides_metadata_checks(report, check) ==
    /\ ~(report.platform_target = LINUX_ARM64
         /\ check.label = <<"TensorRT", "Python", "import">>)
    /\ check.import_name # None

_should_render_check(report, check) ==
    ~(report.platform_target = LINUX_ARM64
      /\ check.label = <<"TensorRT", "Python", "import">>)

\* The first check labelled "TensorRT Python import" of a Linux-arm64 report.
_get_hidden_jetson_tensorrt_import_check(report) ==
    IF report.platform_target # LINUX_ARM64 THEN None
    ELSE LET found == {i \in DOMAIN report.checks :
                         report.checks[i].label = <<"TensorRT", "Python", "import">>}
         IN  IF found = {} THEN None
             ELSE Some(report.checks[CHOOSE i \in found : \A j \in found : i <= j])

_render_check_display_name(check) ==
    IF /\ check.distribution # None
       /\ check.import_name # None
       /\ check.label = <<Get(check.import_name)>>
       /\ <<Get(check.distribution)>> # check.label
    THEN check.label \o <<"(", "dist", ":", Get(check.distribution), ")">>
    ELSE check.label

\* Variant of render_check_line in which the folded import message replaces
\* the message of the row.
render_check_line_replaces_message(check, hidden_jetson_tensorrt_import) ==
    LET expected == IF check.expected_version # None
                    THEN <<"expected", "=">> \o Get(check.expected_version) ELSE <<>>
        installed == IF check.installed_version # None
                     THEN <<"installed", "=">> \o Get(check.installed_version) ELSE <<>>
        folded == /\ check.label = <<"TensorRT", "package">>
                  /\ hidden_jetson_tensorrt_import # None
                  /\ Get(hidden_jetson_tensorrt_import).status # OK
        message == IF ~folded THEN check.message
                   ELSE Get(hidden_jetson_tensorrt_import).message
        suffix == IF message # <<>> THEN <<"-">> \o message ELSE <<>>
    IN  <<"[", check.status, "]">> \o _render_check_display_name(check)
        \o expected \o installed \o suffix

\* The line the loop of render_platform_report appends for one check.
render_check_line(check, hidden_jetson_tensorrt_import) ==
    LET expected == IF check.expected_version # None
                    THEN <<"expected", "=">> \o Get(check.expected_version) ELSE <<>>
        installed == IF check.installed_version # None
                     THEN <<"installed", "=">> \o Get(check.installed_version) ELSE <<>>
        folded == /\ check.label = <<"TensorRT", "package">>
                  /\ hidden_jetson_tensorrt_import # None
                  /\ Get(hidden_jetson_tensorrt_import).status # OK
        import_message == IF Get(hidden_jetson_tensorrt_import).message # <<>>
                          THEN Get(hidden_jetson_tensorrt_import).message
                          ELSE <<"import", "check", "failed">>
        message == IF ~folded THEN check.message
                   ELSE IF check.message # <<>>
                   THEN check.message \o <<";">> \o import_message
                   ELSE import_message
        suffix == IF message # <<>> THEN <<"-">> \o message ELSE <<>>
    IN  <<"[", check.status, "]">> \o _render_check_display_name(check)
        \o expected \o installed \o suffix

\* The tip is tokenised without its backquotes.
JetsonTip ==
    <<"Jetson", "tip", ":", "prefer", "JetPack/system", "Python", "packages", ",",
      "then", "create", "the", "project", "venv", "with", "uv", "venv", "--",
      "python", "/usr/bin/python3", "--", "system-site-packages", "and", "run",
      "uv", "sync", ".">>

\* Variant of render_platform_report that gives the Jetson tip for every
\* failed report.
render_platform_report_tip_on_any_failure(report) ==
    LET hidden == _get_hidden_jetson_tensorrt_import_check(report)
        Rendered(check) == _should_render_check(report, check)
        shown == SelectSeq(report.checks, Rendered)
    IN  << <<"Platform", "check", ":", report.platform_target, "(">>
             \o report.platform_details \o <<")">>,
           <<"Status", ":", _status_label(report)>> >>
        \o [i \in DOMAIN shown |-> render_check_line(shown[i], hidden)]
        \o [i \in DOMAIN report.warnings |-> <<"warning", ":">> \o report.warnings[i]]
        \o (IF ~report.ok THEN <<JetsonTip>> ELSE <<>>)

render_platform_report(report) ==
    LET hidden == _get_hidden_jetson_tensorrt_import_check(report)
        Rendered(check) == _should_render_check(report, check)
        shown == SelectSeq(report.checks, Rendered)
    IN  << <<"Platform", "check", ":", report.platform_target, "(">>
             \o report.platform_details \o <<")">>,
           <<"Status", ":", _status_label(report)>> >>
        \o [i \in DOMAIN shown |-> render_check_line(shown[i], hidden)]
        \o [i \in DOMAIN report.warnings |-> <<"warning", ":">> \o report.warnings[i]]
        \o (IF report.platform_target = LINUX_ARM64 /\ ~report.ok
            THEN <<JetsonTip>> ELSE <<>>)

-----------------------------------------------------------------------------
(* cli.py: main, from the parsed request on *)

\* What main hands back: the step and the lines printed.
Ran(step, stdout, stderr) == [step |-> step, stdout |-> stdout, stderr |-> stderr]

ErrorLine(outcome) == <<"error", ":">> \o outcome.msg

WarningLines(warnings) == [i \in DOMAIN warnings |-> <<"warning", ":">> \o warnings[i]]

SuccessLines(request, preflight, result) ==
    IF request.dry_run
    THEN << <<"Dry", "run", "OK", ":", "format", "=", result.format, "platform", "=",
              preflight.target, "model", "=">> \o path_str(result.input_model),
            <<"export", "kwargs", ":">> \o result.details.kwargs >>
    ELSE << <<"Export", "complete", ":", "format", "=", result.format, "model", "=">>
            \o path_str(result.input_model) \o <<"output", "=">>
            \o (IF result.output_path # None /\ Get(result.output_path) # <<>>
                THEN Get(result.output_path) ELSE <<"unknown">>) >>

\* Variant with the two exit codes exchanged.
exit_code_for_swapped(exc) == IF exc = ExportValidationError THEN 1 ELSE 2

\* The exit code main returns for an exception its handlers catch.
exit_code_for(exc) == IF exc = ExportValidationError THEN 2 ELSE 1

\* Variant of main that validates the request before the preflight check.
main_validates_first(request, modules) ==
    LET valid == validate_request(request)
        pre == preflight_for_format(request.format, modules)
    IN  IF ~Returned(valid)
        THEN Ran(Step(Return(exit_code_for(valid.exc)), modules, <<"validate_request">>,
                      None),
                 <<>>, <<ErrorLine(valid)>>)
        ELSE IF ~Returned(pre.outcome)
        THEN Ran(Step(Return(exit_code_for(pre.outcome.exc)), pre.modules, pre.events,
                      None),
                 <<>>, <<ErrorLine(pre.outcome)>>)
        ELSE LET preflight == pre.outcome.value
                 warned == WarningLines(preflight.warnings)
                 exported == export_model(request, pre.modules)
                 events == pre.events \o <<"export_model">> \o exported.events
             IN  IF Raised(exported.outcome, ExportValidationError)
                    \/ Raised(exported.outcome, ExportExecutionError)
                 THEN Ran(Step(Return(exit_code_for(exported.outcome.exc)),
                               exported.modules, events, exported.lib_call),
                          <<>>, Append(warned, ErrorLine(exported.outcome)))
                 ELSE IF ~Returned(exported.outcome)
                 THEN Ran(Step(exported.outcome, exported.modules, events,
                               exported.lib_call),
                          <<>>, warned)
                 ELSE Ran(Step(Return(0), exported.modules, events, exported.lib_call),
                          SuccessLines(request, preflight, exported.outcome.value),
                          warned)

main(request, modules) ==
    LET pre == preflight_for_format(request.format, modules) IN
    IF ~Returned(pre.outcome)
    THEN Ran(Step(Return(exit_code_for(pre.outcome.exc)), pre.modules, pre.events, None),
             <<>>, <<ErrorLine(pre.outcome)>>)
    ELSE LET preflight == pre.outcome.value
             warned == WarningLines(preflight.warnings)
             exported == export_model(request, pre.modules)
             events == pre.events \o <<"export_model">> \o exported.events
         IN  IF Raised(exported.outcome, ExportValidationError)
                \/ Raised(exported.outcome, ExportExecutionError)
             THEN Ran(Step(Return(exit_code_for(exported.outcome.exc)), exported.modules,
                           events, exported.lib_call),
                      <<>>, Append(warned, ErrorLine(exported.outcome)))
             ELSE IF ~Returned(exported.outcome)
             THEN Ran(Step(exported.outcome, exported.modules, events, exported.lib_call),
                      <<>>, warned)
             ELSE Ran(Step(Return(0), exported.modules, events, exported.lib_call),
                      SuccessLines(request, preflight, exported.outcome.value), warned)

-----------------------------------------------------------------------------
(* platform_cli.py: main, after the arguments are parsed *)

\* Variant of the platform CLI that looks at report.ok before
\* report.supported.
platform_cli_main_ok_first(modules) ==
    LET step == check_current_platform(modules)
        report == step.outcome.value
    IN  Ran(Step(Return(IF ~report.ok THEN 1 ELSE IF ~report.supported THEN 2 ELSE 0),
                 step.modules, <<"platform_cli.main">> \o step.events, None),
            render_platform_report(report), <<>>)

platform_cli_main(modules) ==
    LET step == check_current_platform(modules)
        report == step.outcome.value
    IN  Ran(Step(Return(IF ~report.supported THEN 2 ELSE IF report.ok THEN 0 ELSE 1),
                 step.modules, <<"platform_cli.main">> \o step.events, None),
            render_platform_report(report), <<>>)

-----------------------------------------------------------------------------
(* Inputs *)

Dir == <<"tmp">>

\* The paths requests name; FileSystem is the set of them that exist.
ModelPaths ==
    { <<Dir, <<"model", ".", "pt">>>>,
      <<Dir, <<"model", ".", "PT">>>>,
      <<Dir, <<"model", ".", "onnx">>>>,
      <<Dir, <<".", "pt">>>>,
      << <<"missing", ".", "pt">> >>,
      << <<"missing", ".", "onnx">> >> }

FileSystem ==
    { <<Dir, <<"model", ".", "pt">>>>,
      <<Dir, <<"model", ".", "PT">>>>,
      <<Dir, <<"model", ".", "onnx">>>>,
      <<Dir, <<".", "pt">>>> }

OptNumbers == {None} \cup {Some(n) : n \in Numbers}

OutputDirs == {None, Some(<<Dir, <<"exports">>>>)}

Devices == {None, Some("0")}

Requests ==
    { ExportRequest(p, f, o, i, d, h, i8, b, w, n, v, dr) :
        p \in ModelPaths, f \in ExportFormat, o \in OutputDirs, i \in Numbers,
        d \in Devices, h \in BOOLEAN, i8 \in BOOLEAN, b \in OptNumbers,
        w \in OptNumbers, n \in BOOLEAN, v \in BOOLEAN, dr \in BOOLEAN }

\* No call made yet.
NoCall == [op |-> "none", outcome |-> Return(None), events |-> <<>>,
           lib_call |-> None, stdout |-> <<>>, stderr |-> <<>>]

\* The record of a call of op that went through step and printed
\* stdout and stderr.
Call(op, step, stdout, stderr) ==
    [op |-> op, outcome |-> step.outcome, events |-> step.events,
     lib_call |-> step.lib_call, stdout |-> stdout, stderr |-> stderr]

\* A pure function result as a step.
Pure(outcome) == Step(outcome, sys_modules, <<>>, None)

\* A backend that is never reached.
NoBackend == [construct |-> "ok", export |-> "ok", exc_msg |-> <<>>,
              exported |-> Object("NoneType", <<>>)]

-----------------------------------------------------------------------------
(* Specification of the request functions: validate_request or             *)
(* build_export_kwargs applied once to a request of the input domain.      *)

InitRequest ==
    /\ platform = [system |-> "Darwin", machine |-> "arm64"]
    /\ importable = {}
    /\ dists = EmptyDict
    /\ files = FileSystem
    /\ lib = NoBackend
    /\ req \in Requests
    /\ sys_modules = EmptyDict
    /\ call = NoCall

ValidateRequest ==
    /\ call.op = "none"
    /\ call' = Call("validate_request", Pure(validate_request(req)), <<>>, <<>>)
    /\ UNCHANGED <<env, sys_modules>>

BuildExportKwargs ==
    /\ call.op = "none"
    /\ call' = Call("build_export_kwargs", Pure(Return(build_export_kwargs(req))),
                    <<>>, <<>>)
    /\ UNCHANGED <<env, sys_modules>>

NextRequest == ValidateRequest \/ BuildExportKwargs

SpecRequest == InitRequest /\ [][NextRequest]_vars

-----------------------------------------------------------------------------
(* Inputs of the export specifications *)

\* How the external library can behave: the constructor raises, export raises,
\* or export returns a Path, a str or something else.
ExcMessages == {<<"backend", "blew", "up">>, <<>>}

OutputFile == <<"tmp", "/", "model", ".", "engine">>

Libs ==
    {[construct |-> "raise", export |-> "ok", exc_msg |-> m,
      exported |-> Object("NoneType", <<>>)] : m \in {<<"backend", "blew", "up">>}}
    \cup {[construct |-> "ok", export |-> "raise", exc_msg |-> m,
           exported |-> Object("NoneType", <<>>)] : m \in ExcMessages}
    \cup {[construct |-> "ok", export |-> "ok", exc_msg |-> <<>>, exported |-> x] :
            x \in {Object("Path", OutputFile), Object("str", OutputFile),
                   Object("NoneType", <<>>)}}

Flags == {<<FALSE, FALSE, FALSE, FALSE>>, <<TRUE, FALSE, TRUE, FALSE>>,
          <<TRUE, TRUE, TRUE, TRUE>>}

\* The requests handed to export_model: every combination of the fields
\* validation reads, with three settings of the four pass-through flags.
ExportRequests ==
    { ExportRequest(p, f, o, i, Some("0"), fl[1], fl[2], b, w, fl[3], fl[4], dr) :
        p \in { <<Dir, <<"model", ".", "pt">>>>, <<Dir, <<"model", ".", "onnx">>>>,
                << <<"missing", ".", "pt">> >> },
        f \in ExportFormat, o \in OutputDirs, i \in Numbers, fl \in Flags,
        b \in OptNumbers, w \in OptNumbers, dr \in BOOLEAN }

\* The requests given on the command line of the export CLI.
CliRequests ==
    { ExportRequest(p, f, None, i, None, FALSE, FALSE, None, w, FALSE, FALSE, dr) :
        p \in { <<Dir, <<"model", ".", "pt">>>>, << <<"missing", ".", "pt">> >> },
        f \in ExportFormat, i \in {0, 1}, w \in {None, Some(1)}, dr \in BOOLEAN }

\* The request the defaults of the parser give for "model.pt --format coreml".
DefaultRequest ==
    ExportRequest(<< <<"model", ".", "pt">> >>, COREML, None, 1, None, FALSE, FALSE, None,
                  None, FALSE, FALSE, FALSE)

Platforms ==
    { [system |-> "Darwin", machine |-> "arm64"],
      [system |-> "Linux", machine |-> "aarch64"],
      [system |-> "Linux", machine |-> "x86_64"] }

-----------------------------------------------------------------------------
(* Specification of export_model: one call in a fresh process.             *)

InitExport ==
    /\ platform = [system |-> "Linux", machine |-> "aarch64"]
    /\ importable \in SUBSET {"ultralytics", "tensorrt", "tensorrt_bindings"}
    /\ dists = EmptyDict
    /\ files = FileSystem
    /\ lib \in Libs
    /\ req \in ExportRequests
    /\ sys_modules = EmptyDict
    /\ call = NoCall

ExportModel ==
    /\ call.op = "none"
    /\ LET step == export_model(req, sys_modules) IN
       /\ call' = Call("export_model", step, <<>>, <<>>)
       /\ sys_modules' = step.modules
    /\ UNCHANGED env

NextExport == ExportModel

SpecExport == InitExport /\ [][NextExport]_vars

-----------------------------------------------------------------------------
(* Specification of the export CLI: one run of main in a fresh process.    *)

InitCli ==
    /\ platform \in Platforms
    /\ importable \in
         { s \cup {"torchvision", "onnxruntime"} :
             s \in SUBSET {"coremltools", "tensorrt", "tensorrt_bindings", "torch",
                           "ultralytics"} }
    /\ dists = EmptyDict
    /\ files = FileSystem
    /\ lib \in Libs
    /\ req \in CliRequests
    /\ sys_modules = EmptyDict
    /\ call = NoCall

CliMain ==
    /\ call.op = "none"
    /\ LET ran == main(req, sys_modules) IN
       /\ call' = Call("main", ran.step, ran.stdout, ran.stderr)
       /\ sys_modules' = ran.step.modules
    /\ UNCHANGED env

NextCli == CliMain

SpecCli == InitCli /\ [][NextCli]_vars

-----------------------------------------------------------------------------
(* Specification of the platform check: one call in a fresh process, on a  *)
(* host whose installed distributions are those the platform's table names *)

OptVersions(versions) == {None} \cup {Some(v) : v \in versions}

UltralyticsVersions ==
    {ULTRALYTICS_VERSION, <<"8", ".", "4", ".", "14", ".", "0">>,
     <<"8", ".", "4", ".", "15">>, <<"unknown">>}

TensorrtVersions ==
    {JETSON_TENSORRT_VERSION, <<"10", ".", "7">>, <<"10", ".", "8", ".", "0">>,
     <<"unknown">>}

MacosDists ==
    { ("ultralytics" :> u) @@ ("torch" :> t) @@ ("torchvision" :> tv)
      @@ ("coremltools" :> c) :
        u \in OptVersions(UltralyticsVersions),
        tv \in OptVersions({MACOS_TORCHVISION_VERSION}),
        t \in OptVersions({MACOS_TORCH_VERSION, <<"2", ".", "8", ".", "0">>}),
        c \in OptVersions({MACOS_COREMLTOOLS_VERSION, <<"8", ".", "0">>}) }

JetsonDists ==
    { ("ultralytics" :> u) @@ ("torch" :> t) @@ ("torchvision" :> tv)
      @@ ("onnxruntime-gpu" :> o) @@ ("tensorrt" :> r) :
        u \in OptVersions(UltralyticsVersions),
        tv \in OptVersions({JETSON_TORCHVISION_VERSION}),
        t \in OptVersions({JETSON_TORCH_VERSION}),
        o \in OptVersions({JETSON_ONNXRUNTIME_GPU_VERSION, <<"1", ".", "20", ".", "0">>}),
        r \in OptVersions(TensorrtVersions) }

\* The hosts of the platform check: [platform, dists, importable].
Hosts ==
    { [platform |-> [system |-> "Darwin", machine |-> m], dists |-> d, importable |-> i] :
        m \in {"arm64", "x86_64"}, d \in MacosDists,
        i \in SUBSET {"torch", "torchvision", "coremltools", "packaging"} }
    \cup
    { [platform |-> [system |-> "Linux", machine |-> m], dists |-> d, importable |-> i] :
        m \in {"aarch64", "ARM64"}, d \in JetsonDists,
        i \in { x \cup {"torchvision"} :
                  x \in SUBSET {"torch", "onnxruntime", "tensorrt", "tensorrt_bindings",
                                "packaging"} } }
    \cup
    { [platform |-> p, dists |-> d, importable |-> {"torch", "packaging"}] :
        p \in { [system |-> "Linux", machine |-> "x86_64"],
                [system |-> "Windows", machine |-> "AMD64"] },
        d \in { ("ultralytics" :> Some(ULTRALYTICS_VERSION)), EmptyDict } }

InitPlatform ==
    /\ \E host \in Hosts :
          /\ platform = host.platform
          /\ dists = host.dists
          /\ importable = host.importable
    /\ files = FileSystem
    /\ lib = NoBackend
    /\ req = DefaultRequest
    /\ sys_modules = EmptyDict
    /\ call = NoCall

CheckCurrentPlatform ==
    /\ call.op = "none"
    /\ LET step == check_current_platform(sys_modules) IN
       /\ call' = Call("check_current_platform", step, <<>>, <<>>)
       /\ sys_modules' = step.modules
    /\ UNCHANGED env

\* One run of the platform-check CLI.
PlatformCliMain ==
    /\ call.op = "none"
    /\ LET ran == platform_cli_main(sys_modules) IN
       /\ call' = Call("platform_cli.main", ran.step, ran.stdout, ran.stderr)
       /\ sys_modules' = ran.step.modules
    /\ UNCHANGED env

NextPlatform == CheckCurrentPlatform \/ PlatformCliMain

SpecPlatform == InitPlatform /\ [][NextPlatform]_vars

-----------------------------------------------------------------------------
(* Specification of the preflight check: one call of preflight_for_format  *)
(* in a fresh process, for the format of the request.                      *)

PreflightPlatforms ==
    Platforms \cup { [system |-> "Darwin", machine |-> "x86_64"],
                     [system |-> "Linux", machine |-> "ARM64"],
                     [system |-> "Windows", machine |-> "AMD64"] }

PreflightModules ==
    {"coremltools", "tensorrt", "tensorrt_bindings", "torch", "torchvision", "onnxruntime"}

PreflightRequests == { [DefaultRequest EXCEPT !.format = f] : f \in ExportFormat }

InitPreflight ==
    /\ platform \in PreflightPlatforms
    /\ importable \in SUBSET PreflightModules
    /\ dists = EmptyDict
    /\ files = FileSystem
    /\ lib = NoBackend
    /\ req \in PreflightRequests
    /\ sys_modules = EmptyDict
    /\ call = NoCall

PreflightForFormat ==
    /\ call.op = "none"
    /\ LET step == preflight_for_format(req.format, sys_modules) IN
       /\ call' = Call("preflight_for_format", step, <<>>, <<>>)
       /\ sys_modules' = step.modules
    /\ UNCHANGED env

NextPreflight == PreflightForFormat

SpecPreflight == InitPreflight /\ [][NextPreflight]_vars

-----------------------------------------------------------------------------
(* Specification of a session: any sequence of calls of                    *)
(* preflight_for_format, export_model and check_current_platform in one    *)
(* process.  The host, the filesystem and the request stay the same; only  *)
(* sys.modules and the record of the last call change.                     *)

SessionHosts ==
    { [platform |-> [system |-> "Linux", machine |-> "aarch64"],
       dists |-> ("ultralytics" :> Some(ULTRALYTICS_VERSION))
                 @@ ("torch" :> Some(JETSON_TORCH_VERSION))
                 @@ ("torchvision" :> Some(JETSON_TORCHVISION_VERSION))
                 @@ ("onnxruntime-gpu" :> Some(JETSON_ONNXRUNTIME_GPU_VERSION))
                 @@ ("tensorrt" :> Some(JETSON_TENSORRT_VERSION))],
      [platform |-> [system |-> "Darwin", machine |-> "arm64"],
       dists |-> ("ultralytics" :> Some(ULTRALYTICS_VERSION))
                 @@ ("torch" :> Some(MACOS_TORCH_VERSION))
                 @@ ("torchvision" :> Some(MACOS_TORCHVISION_VERSION))
                 @@ ("coremltools" :> Some(MACOS_COREMLTOOLS_VERSION))],
      [platform |-> [system |-> "Linux", machine |-> "x86_64"],
       dists |-> EmptyDict] }

SessionModules ==
    { x \cup {"torch", "torchvision", "onnxruntime", "packaging"} :
        x \in SUBSET {"ultralytics", "tensorrt", "tensorrt_bindings", "coremltools"} }

SessionRequests ==
    { [DefaultRequest EXCEPT !.model_path = p, !.format = f, !.dry_run = dr] :
        p \in { <<Dir, <<"model", ".", "pt">>>>, << <<"missing", ".", "pt">> >> },
        f \in ExportFormat, dr \in BOOLEAN }

SessionLibs == {l \in Libs : l.construct = "ok" /\ l.exported.type # "str"}

InitSession ==
    /\ \E host \in SessionHosts :
          /\ platform = host.platform
          /\ dists = host.dists
    /\ importable \in SessionModules
    /\ files = FileSystem
    /\ lib \in SessionLibs
    /\ req \in SessionRequests
    /\ sys_modules = EmptyDict
    /\ call = NoCall

SessionPreflight ==
    /\ LET step == preflight_for_format(req.format, sys_modules) IN
       /\ call' = Call("preflight_for_format", step, <<>>, <<>>)
       /\ sys_modules' = step.modules
    /\ UNCHANGED env

SessionExport ==
    /\ LET step == export_model(req, sys_modules) IN
       /\ call' = Call("export_model", step, <<>>, <<>>)
       /\ sys_modules' = step.modules
    /\ UNCHANGED env

SessionPlatformCheck ==
    /\ LET step == check_current_platform(sys_modules) IN
       /\ call' = Call("check_current_platform", step, <<>>, <<>>)
       /\ sys_modules' = step.modules
    /\ UNCHANGED env

NextSession == SessionPreflight \/ SessionExport \/ SessionPlatformCheck

SpecSession == InitSession /\ [][NextSession]_vars

-----------------------------------------------------------------------------
(* Claims about validate_request and build_export_kwargs (SpecRequest)     *)

Validated == call.op = "validate_request"

ValidationMessage(sub) ==
    /\ Raised(call.outcome, ExportValidationError)
    /\ Contains(call.outcome.msg, sub)

\* C3: a request whose model path does not exist, whatever its other fields,
\* makes validate_request raise ExportValidationError with "not found" in the
\* message.
C3_MissingFileNotFound ==
    (Validated /\ ~path_exists(req.model_path))
        => ValidationMessage(<<"not", "found">>)

C3_Witness ==
    /\ Validated
    /\ ~path_exists(req.model_path)
    /\ path_suffix(req.model_path) # <<".", "pt">>
    /\ req.imgsz <= 0
    /\ req.format = COREML /\ IsSet(req.workspace)
    /\ ValidationMessage(<<"not", "found">>)

\* C4 as stated: every request whose model path has a suffix other than .pt
\* makes validate_request raise ExportValidationError mentioning the .pt
\* extension.
C4_Original ==
    (Validated /\ path_suffix(req.model_path) # <<".", "pt">>)
        => ValidationMessage(<<".", "pt", "extension">>)

\* C4 amended: every request whose model path exists and whose suffix,
\* lowercased, is not .pt makes validate_request raise ExportValidationError
\* mentioning the .pt extension.
C4_ExistingNonPtRejected ==
    (Validated /\ path_exists(req.model_path)
               /\ lower(path_suffix(req.model_path)) # <<".", "pt">>)
        => ValidationMessage(<<".", "pt", "extension">>)

C4_Witness ==
    /\ Validated
    /\ path_exists(req.model_path)
    /\ path_suffix(req.model_path) = <<".", "onnx">>
    /\ req.imgsz <= 0
    /\ ValidationMessage(<<".", "pt", "extension">>)

\* The rules that precede the two workspace rules all pass.
EarlierRulesPass(request) ==
    /\ path_exists(request.model_path)
    /\ lower(path_suffix(request.model_path)) = <<".", "pt">>
    /\ request.imgsz > 0
    /\ (IsSet(request.batch) => Get(request.batch) > 0)

\* C5 as stated: every CoreML request with workspace set makes
\* validate_request raise ExportValidationError mentioning "workspace".
C5_Original ==
    (Validated /\ req.format = COREML /\ IsSet(req.workspace))
        => ValidationMessage(<<"workspace">>)

\* C5 amended: every CoreML request with workspace set makes validate_request
\* raise ExportValidationError, and the message mentions "workspace" when the
\* model file exists, has the .pt suffix, imgsz > 0 and batch is unset or > 0.
C5_CoremlWorkspaceRejected ==
    (Validated /\ req.format = COREML /\ IsSet(req.workspace))
        => /\ Raised(call.outcome, ExportValidationError)
           /\ EarlierRulesPass(req) => ValidationMessage(<<"workspace">>)

C5_Witness ==
    /\ Validated
    /\ req.format = COREML
    /\ IsSet(req.workspace) /\ Get(req.workspace) > 0
    /\ EarlierRulesPass(req)
    /\ ValidationMessage(<<"workspace", "is", "only", "valid">>)

\* The six rules in the documented order, each with the phrase that
\* identifies its message.
RuleViolated(i, request) ==
    CASE i = 1 -> ~path_exists(request.model_path)
      [] i = 2 -> lower(path_suffix(request.model_path)) # <<".", "pt">>
      [] i = 3 -> ~(request.imgsz > 0)
      [] i = 4 -> IsSet(request.batch) /\ ~(Get(request.batch) > 0)
      [] i = 5 -> IsSet(request.workspace) /\ ~(Get(request.workspace) > 0)
      [] i = 6 -> request.format = COREML /\ IsSet(request.workspace)

RulePhrase(i) ==
    CASE i = 1 -> <<"not", "found">>
      [] i = 2 -> <<".", "pt", "extension">>
      [] i = 3 -> <<"imgsz", "must", "be", "greater">>
      [] i = 4 -> <<"batch", "must", "be", "greater">>
      [] i = 5 -> <<"workspace", "must", "be", "greater">>
      [] i = 6 -> <<"workspace", "is", "only", "valid">>

ViolatedRules(request) == {i \in 1..6 : RuleViolated(i, request)}

FirstViolated(request) ==
    CHOOSE i \in ViolatedRules(request) : \A j \in ViolatedRules(request) : i <= j

BuiltKwargs == call.op = "build_export_kwargs"

HasKey(kwargs, k) == k \in DOMAIN kwargs

\* C7: for ENGINE the kwargs hold device, batch and workspace exactly when the
\* request sets them, with the request's values; for COREML they never hold
\* any of the three.
C7_EngineOnlyKwargs ==
    BuiltKwargs =>
        LET kwargs == call.outcome.value IN
        /\ req.format = ENGINE =>
              /\ HasKey(kwargs, "device") <=> IsSet(req.device)
              /\ HasKey(kwargs, "batch") <=> IsSet(req.batch)
              /\ HasKey(kwargs, "workspace") <=> IsSet(req.workspace)
              /\ IsSet(req.device) => kwargs["device"] = Get(req.device)
              /\ IsSet(req.batch) => kwargs["batch"] = Get(req.batch)
              /\ IsSet(req.workspace) => kwargs["workspace"] = Get(req.workspace)
        /\ req.format = COREML =>
              {"device", "batch", "workspace"} \cap DOMAIN kwargs = {}

C7_Witness ==
    /\ BuiltKwargs
    /\ req.format = COREML
    /\ IsSet(req.device) /\ IsSet(req.batch) /\ IsSet(req.workspace)
    /\ {"device", "batch", "workspace"} \cap DOMAIN call.outcome.value = {}

-----------------------------------------------------------------------------
(* Claims about the export CLI (SpecCli)                                   *)

MainRan == call.op = "main"

ExitCode(code) == Returned(call.outcome) /\ call.outcome.value = code

\* What preflight_for_format and export_model do in this run: the process
\* starts with an empty module table, and export_model runs only after
\* preflight returned, on the table preflight left.
RunPreflight == preflight_for_format(req.format, EmptyDict)

RunExport == export_model(req, RunPreflight.modules)

PreflightReturned == Returned(RunPreflight.outcome)

ExportRaised(exc) == PreflightReturned /\ Raised(RunExport.outcome, exc)

\* C1: main returns 2 exactly when preflight_for_format or export_model
\* raised ExportValidationError, 1 exactly when export_model raised
\* ExportExecutionError, and 0 when both completed without raising.
C1_ExitCodes ==
    MainRan =>
        /\ ExitCode(2) <=> (Raised(RunPreflight.outcome, ExportValidationError)
                            \/ ExportRaised(ExportValidationError))
        /\ ExitCode(1) <=> ExportRaised(ExportExecutionError)
        /\ (PreflightReturned /\ Returned(RunExport.outcome)) => ExitCode(0)

C1_Witness ==
    /\ MainRan
    /\ ExitCode(1)
    /\ ExportRaised(ExportExecutionError)
    /\ ~req.dry_run

\* C2 as stated: every failure of preflight, validation, loading the library
\* class, constructing the model or the export call ends with main returning
\* 2 or 1, and no exception escapes main.
C2_NoExceptionEscapesMain ==
    MainRan => (ExitCode(0) \/ ExitCode(1) \/ ExitCode(2))

-----------------------------------------------------------------------------
(* Claims about export_model (SpecExport)                                  *)

Exported == call.op = "export_model"

Happened(event) == \E i \in DOMAIN call.events : call.events[i] = event

BackendUntouched ==
    /\ ~Happened("_load_yolo_class")
    /\ ~Happened("YOLO")
    /\ ~Happened("export")
    /\ call.lib_call = None
    /\ "ultralytics" \notin DOMAIN sys_modules

DryRunResult ==
    /\ Returned(call.outcome)
    /\ call.outcome.value.output_path = None
    /\ call.outcome.value.details.dry_run = "true"

RequestValid == Returned(validate_request(req))

\* C8 as stated: for every request with dry_run set, export_model never loads
\* or calls the backend and returns an ExportResult with output_path None and
\* details["dry_run"] = "true".
C8_Original == (Exported /\ req.dry_run) => (BackendUntouched /\ DryRunResult)

\* C8 amended: for every request with dry_run set, export_model never loads or
\* calls the backend; when the request passes validate_request it returns an
\* ExportResult with output_path None and details["dry_run"] = "true", and
\* otherwise it raises the ExportValidationError of validate_request.
C8_DryRunSkipsBackend ==
    (Exported /\ req.dry_run) =>
        /\ BackendUntouched
        /\ RequestValid => DryRunResult
        /\ ~RequestValid => call.outcome = validate_request(req)

C8_Witness ==
    /\ Exported
    /\ req.dry_run
    /\ req.format = ENGINE
    /\ RequestValid
    /\ "ultralytics" \in importable
    /\ lib.export = "raise"
    /\ BackendUntouched
    /\ DryRunResult

BackendRaised == lib.construct = "raise" \/ lib.export = "raise"

\* C9 as stated: in a non-dry-run export_model call with a valid request, an
\* exception of the model constructor or of export is re-raised as
\* ExportExecutionError with the original message in its message, and no
\* other exception type leaves the call.
C9_OnlyExecutionErrorLeaves ==
    (Exported /\ ~req.dry_run /\ RequestValid) =>
        /\ Returned(call.outcome) \/ Raised(call.outcome, ExportExecutionError)
        /\ (Happened("YOLO") /\ BackendRaised) =>
              /\ Raised(call.outcome, ExportExecutionError)
              /\ Contains(call.outcome.msg, lib.exc_msg)

-----------------------------------------------------------------------------
(* Claims about check_current_platform (SpecPlatform)                      *)

PlatformChecked == call.op = "check_current_platform"

Report == call.outcome.value

Supported == detect_platform # OTHER_PLATFORM

Table == check_table(detect_platform)

\* Every distribution the table names is installed at the expected version.
InstalledEqualsExpected ==
    \A i \in DOMAIN Table :
        Table[i].distribution # "" =>
            _get_distribution_version(Table[i].distribution) = Some(Table[i].version)

\* Every module the table names can be imported.
ModulesImport ==
    \A i \in DOMAIN Table : Table[i].import_name # "" => Table[i].import_name \in importable

ReportAllOk ==
    /\ Report.ok
    /\ \A i \in DOMAIN Report.checks : Report.checks[i].status = OK

\* C10 as stated: on a supported platform, when the installed version of
\* every checked distribution equals its expected version, the report has
\* ok = true and every check's status is OK.
C10_Original == (PlatformChecked /\ Supported /\ InstalledEqualsExpected) => ReportAllOk

\* C10 amended: on a supported platform, when the installed version of every
\* checked distribution equals its expected version and every module the
\* checks import can be imported, the report has ok = true and every check's
\* status is OK.
C10_ExpectedVersionsAndImportsOk ==
    (PlatformChecked /\ Supported /\ InstalledEqualsExpected /\ ModulesImport)
        => ReportAllOk

C10_Witness ==
    /\ PlatformChecked
    /\ detect_platform = LINUX_ARM64
    /\ InstalledEqualsExpected
    /\ ModulesImport
    /\ "packaging" \notin importable
    /\ Len(Report.checks) = 6
    /\ ReportAllOk

StatusesOf(checks) == {checks[i].status : i \in DOMAIN checks}

\* C11: on a supported platform the report holds one PackageCheck per entry
\* of the platform's table, in the table's order, and report.ok is true
\* exactly when every check's status is OK; a check with status MISSING or
\* MISMATCH makes report.ok false.
C11_OneCheckPerEntryOkIsConjunction ==
    (PlatformChecked /\ Supported) =>
        /\ Len(Report.checks) = Len(Table)
        /\ \A i \in DOMAIN Table : Report.checks[i].label = Table[i].label
        /\ Report.ok <=> (\A i \in DOMAIN Report.checks : Report.checks[i].status = OK)
        /\ (StatusesOf(Report.checks) \cap {MISSING, MISMATCH} # {}) => ~Report.ok

C11_Witness ==
    /\ PlatformChecked
    /\ detect_platform = MACOS
    /\ Len(Report.checks) = 4
    /\ Report.checks[1].status = MISMATCH
    /\ \A i \in 2..4 : Report.checks[i].status = OK
    /\ ~Report.ok

-----------------------------------------------------------------------------
(* Claims about render_platform_report and the platform CLI (SpecPlatform) *)

PlatformCliRan == call.op = "platform_cli.main"

\* The report the CLI renders: the process starts with an empty module table.
CliReport == check_current_platform(EmptyDict).outcome.value

StartsWith(line, prefix) ==
    /\ Len(line) >= Len(prefix)
    /\ SubSeq(line, 1, Len(prefix)) = prefix

\* Some line of the text is the line of this check: its status tag followed
\* by its label.
TagLine(text, check) ==
    \E i \in DOMAIN text : StartsWith(text[i], <<"[", check.status, "]">> \o check.label)

Failing(check) == check.status \in {MISSING, MISMATCH}

\* The check render_platform_report never prints on Linux-arm64.
HiddenCheck(report, check) ==
    /\ report.platform_target = LINUX_ARM64
    /\ check.label = <<"TensorRT", "Python", "import">>

\* C12 as stated: for every check of the report with status MISSING or
\* MISMATCH, the rendered text contains that check's line with the status
\* tag [MISSING] or [MISMATCH].
C12_Original ==
    PlatformCliRan =>
        \A i \in DOMAIN CliReport.checks :
            Failing(CliReport.checks[i]) => TagLine(call.stdout, CliReport.checks[i])

\* C12 amended: for every check with status MISSING or MISMATCH other than
\* the "TensorRT Python import" check of a Linux-arm64 report, the rendered
\* text contains that check's line with its status tag.  The "TensorRT
\* Python import" check of a Linux-arm64 report has no line: when it failed,
\* its message ends the line of the "TensorRT package" check and the status
\* line reads FAILED.
C12_RenderedChecksCarryTheirTag ==
    PlatformCliRan =>
        \A i \in DOMAIN CliReport.checks :
            LET check == CliReport.checks[i] IN
            /\ (Failing(check) /\ ~HiddenCheck(CliReport, check))
                  => TagLine(call.stdout, check)
            /\ HiddenCheck(CliReport, check) =>
                  /\ \A k \in DOMAIN call.stdout :
                        ~Contains(call.stdout[k], <<"TensorRT", "Python", "import">>)
                  /\ Failing(check) =>
                        /\ call.stdout[2] = <<"Status", ":", "FAILED">>
                        /\ \E k \in DOMAIN call.stdout :
                              /\ Contains(call.stdout[k], <<"]", "TensorRT", "package">>)
                              /\ Len(call.stdout[k]) > Len(check.message)
                              /\ SubSeq(call.stdout[k],
                                        Len(call.stdout[k]) - Len(check.message) + 1,
                                        Len(call.stdout[k])) = check.message

C12_Witness ==
    /\ PlatformCliRan
    /\ CliReport.platform_target = LINUX_ARM64
    /\ CliReport.checks[1].status = MISMATCH
    /\ TagLine(call.stdout, CliReport.checks[1])
    /\ CliReport.checks[4].status = MISSING
    /\ \E k \in DOMAIN call.stdout :
          StartsWith(call.stdout[k],
                     <<"[", "MISSING", "]", "onnxruntime", "(", "dist", ":",
                       "onnxruntime-gpu", ")", "expected", "=", "1", ".", "23", ".", "0",
                       "-", "distribution", "not", "installed">>)
    /\ CliReport.checks[5].status = OK
    /\ CliReport.checks[6].status = MISSING
    /\ ~TagLine(call.stdout, CliReport.checks[6])
    /\ \E k \in DOMAIN call.stdout :
          StartsWith(call.stdout[k], <<"[", "OK", "]", "TensorRT", "package">>)

-----------------------------------------------------------------------------
(* Claims about detect_platform (SpecPlatform)                             *)

UnsupportedReport ==
    /\ ~Report.supported
    /\ ~Report.ok
    /\ Report.checks = <<>>
    /\ Report.warnings = <<UnsupportedWarning>>

\* C13 as stated: ("Darwin", "arm64") gives the macOS target, ("Linux",
\* "aarch64") the Linux-arm64 target, and every other pair of system and
\* machine gives OTHER, which the platform check reports as unsupported.
C13_Original ==
    PlatformChecked =>
        /\ Report.platform_target =
              (IF platform.system = "Darwin" /\ platform.machine = "arm64" THEN MACOS
               ELSE IF platform.system = "Linux" /\ platform.machine = "aarch64"
               THEN LINUX_ARM64
               ELSE OTHER_PLATFORM)
        /\ Report.platform_target = OTHER_PLATFORM => UnsupportedReport

\* C13 amended: with system and machine compared in lower case, system
\* "darwin" gives the macOS target whatever the machine, system "linux" with
\* machine "aarch64" or "arm64" gives the Linux-arm64 target, and every other
\* pair gives OTHER; the platform check reports OTHER, and only OTHER, as
\* unsupported.
C13_DetectPlatformBuckets ==
    PlatformChecked =>
        /\ Report.platform_target = MACOS <=> lower_token(platform.system) = "darwin"
        /\ Report.platform_target = LINUX_ARM64 <=>
              /\ lower_token(platform.system) = "linux"
              /\ lower_token(platform.machine) \in {"aarch64", "arm64"}
        /\ Report.platform_target \in {MACOS, LINUX_ARM64, OTHER_PLATFORM}
        /\ Report.platform_target = OTHER_PLATFORM => UnsupportedReport
        /\ Report.platform_target # OTHER_PLATFORM => Report.supported

C13_Witness ==
    /\ PlatformChecked
    /\ platform = [system |-> "Darwin", machine |-> "x86_64"]
    /\ Report.platform_target = MACOS
    /\ Report.supported
    /\ Len(Report.checks) = 4

-----------------------------------------------------------------------------
(* Claims about the platform CLI (SpecPlatform)                            *)

\* C14: the platform CLI prints the rendered report of the check it ran and
\* returns 2 exactly when the report is unsupported, 0 exactly when it is
\* supported and ok, and 1 exactly when it is supported and not ok.
C14_PlatformCliExitCodes ==
    PlatformCliRan =>
        /\ call.stdout = render_platform_report(CliReport)
        /\ call.stderr = <<>>
        /\ ExitCode(2) <=> ~CliReport.supported
        /\ ExitCode(0) <=> (CliReport.supported /\ CliReport.ok)
        /\ ExitCode(1) <=> (CliReport.supported /\ ~CliReport.ok)

C14_Witness ==
    /\ PlatformCliRan
    /\ CliReport.supported
    /\ ~CliReport.ok
    /\ ExitCode(1)
    /\ call.stdout[2] = <<"Status", ":", "FAILED">>

-----------------------------------------------------------------------------
(* Claims about preflight_for_format (SpecPreflight)                       *)

Preflighted == call.op = "preflight_for_format"

\* The modules the documentation requires, in probing order.
RequiredNames ==
    IF req.format = COREML THEN <<"coremltools">>
    ELSE IF detect_platform = LINUX_ARM64
    THEN <<"tensorrt", "torch", "torchvision", "onnxruntime">>
    ELSE <<"tensorrt">>

AllRequiredImportable == \A i \in DOMAIN RequiredNames : RequiredNames[i] \in importable

FormatMatchesPlatform ==
    \/ req.format = COREML /\ detect_platform = MACOS
    \/ req.format = ENGINE /\ detect_platform = LINUX_ARM64

EngineOffJetson == Preflighted /\ req.format = ENGINE /\ detect_platform # LINUX_ARM64

MissingRequired == {i \in DOMAIN RequiredNames : RequiredNames[i] \notin importable}

FirstMissing == CHOOSE i \in MissingRequired : \A j \in MissingRequired : i <= j

Probes == [i \in 1..(Len(call.events) - 1) |-> call.events[i + 1]]

\* C17: preflight_for_format raises ExportValidationError exactly when a
\* required module (coremltools for CoreML; tensorrt for ENGINE; also torch,
\* torchvision and onnxruntime for ENGINE on Linux-arm64) cannot be imported;
\* the modules are probed in that order up to the first that fails, the
\* message is the remediation text naming that module, and no
\* PreflightResult is returned.
C17_FirstMissingModuleRaises ==
    Preflighted =>
        /\ Raised(call.outcome, ExportValidationError) <=> MissingRequired # {}
        /\ Returned(call.outcome) <=> MissingRequired = {}
        /\ MissingRequired # {} =>
              /\ Contains(call.outcome.msg, <<RequiredNames[FirstMissing]>>)
              /\ \/ Contains(call.outcome.msg, <<"Install", "on", "macOS", "with">>)
                 \/ Contains(call.outcome.msg, <<"system-site-packages">>)
              /\ Probes = [i \in 1..FirstMissing |-> "import " \o RequiredNames[i]]
        /\ MissingRequired = {} =>
              Probes = [i \in DOMAIN RequiredNames |-> "import " \o RequiredNames[i]]

C17_Witness ==
    /\ Preflighted
    /\ req.format = ENGINE
    /\ detect_platform = LINUX_ARM64
    /\ importable = {"tensorrt", "torch", "coremltools"}
    /\ Raised(call.outcome, ExportValidationError)
    /\ call.outcome.msg = JetsonRemedy("torchvision")
    /\ Probes = <<"import tensorrt", "import torch", "import torchvision">>

-----------------------------------------------------------------------------
(* Claims about the TensorRT compatibility step (SpecExport)               *)

CompatRan == Happened("_ensure_tensorrt_module_compat")

EventIndex(event) == CHOOSE i \in DOMAIN call.events : call.events[i] = event

\* sys.modules names tensorrt_bindings as the module tensorrt.
TensorrtAliased ==
    /\ "tensorrt" \in DOMAIN sys_modules
    /\ sys_modules["tensorrt"] = "tensorrt_bindings"

\* C19: in a fresh process export_model runs the compatibility step exactly
\* for a valid, non-dry-run ENGINE request, and before the backend class is
\* loaded.  When it runs, tensorrt_bindings is registered as tensorrt exactly
\* when tensorrt cannot be imported and tensorrt_bindings can; when tensorrt
\* imports, tensorrt_bindings is not probed and no alias is made; when
\* neither imports, the module table stays as it was and the call goes on to
\* load the backend class.
C19_CompatOnlyForEngine ==
    Exported =>
        /\ CompatRan <=> (req.format = ENGINE /\ ~req.dry_run /\ RequestValid)
        /\ ~CompatRan =>
              /\ ~Happened("import tensorrt") /\ ~Happened("import tensorrt_bindings")
              /\ {"tensorrt", "tensorrt_bindings"} \cap DOMAIN sys_modules = {}
        /\ CompatRan =>
              /\ Happened("_load_yolo_class")
              /\ EventIndex("_ensure_tensorrt_module_compat") < EventIndex("_load_yolo_class")
              /\ Happened("import tensorrt")
              /\ TensorrtAliased <=>
                    ("tensorrt" \notin importable /\ "tensorrt_bindings" \in importable)
              /\ Happened("alias tensorrt") <=> TensorrtAliased
              /\ "tensorrt" \in importable =>
                    /\ ~Happened("import tensorrt_bindings")
                    /\ "tensorrt_bindings" \notin DOMAIN sys_modules
                    /\ sys_modules["tensorrt"] = "tensorrt"
              /\ {"tensorrt", "tensorrt_bindings"} \cap importable = {} =>
                    /\ Happened("import tensorrt_bindings")
                    /\ {"tensorrt", "tensorrt_bindings"} \cap DOMAIN sys_modules = {}

C19_Witness ==
    /\ Exported
    /\ req.format = ENGINE
    /\ ~req.dry_run
    /\ importable = {"ultralytics", "tensorrt_bindings"}
    /\ CompatRan
    /\ TensorrtAliased
    /\ Returned(call.outcome)

-----------------------------------------------------------------------------
(* Claims about sequences of calls in one process (SpecSession)            *)

\* The check labelled "TensorRT Python import" of the report just returned.
TensorrtImportCheck(report) ==
    LET found == {i \in DOMAIN report.checks :
                    report.checks[i].label = <<"TensorRT", "Python", "import">>}
    IN  report.checks[CHOOSE i \in found : TRUE]

C20_CallsAreIndependent ==
    /\ call.op = "preflight_for_format" =>
          call.outcome = preflight_for_format(req.format, EmptyDict).outcome
    /\ call.op = "export_model" => call.outcome = export_model(req, EmptyDict).outcome
    /\ call.op = "check_current_platform" =>
          call.outcome = check_current_platform(EmptyDict).outcome

-----------------------------------------------------------------------------
(* Claims about the check styles (SpecPlatform)                            *)

\* The table entries of one style.
EntriesOf(style) == {i \in DOMAIN Table : Table[i].style = style}

\* C21: a presence-plus-import check is OK with an empty message exactly
\* when its distribution has metadata and its module imports, whatever the
\* installed version, and MISSING otherwise; it is never MISMATCH; its
\* expected_version is the platform's baseline and its installed_version is
\* the version found.
C21_PresenceChecksDoNotEnforceVersion ==
    (PlatformChecked /\ Supported) =>
        \A i \in EntriesOf("presence") :
            LET check == Report.checks[i]
                found == _get_distribution_version(Table[i].distribution)
                present == found # None /\ Table[i].import_name \in importable
            IN  /\ check.status = (IF present THEN OK ELSE MISSING)
                /\ check.status = OK => check.message = <<>>
                /\ check.status = MISSING => check.message # <<>>
                /\ check.expected_version = Some(Table[i].version)
                /\ check.installed_version = found
                /\ check.distribution = Some(Table[i].distribution)
                /\ check.import_name = Some(Table[i].import_name)

C21_Witness ==
    /\ PlatformChecked
    /\ detect_platform = MACOS
    /\ dists["torch"] = Some(<<"2", ".", "8", ".", "0">>)
    /\ "torch" \in importable
    /\ "packaging" \in importable
    /\ Report.checks[2].status = OK
    /\ Report.checks[2].expected_version = Some(MACOS_TORCH_VERSION)
    /\ Report.checks[2].installed_version = Some(<<"2", ".", "8", ".", "0">>)
    /\ Report.checks[4].status = MISSING
    /\ dists["coremltools"] # None

ExactEntries == EntriesOf("exact") \cup EntriesOf("jetson_tensorrt")

\* Both strings parse as versions and the versions are equal.
ParseEqual(expected, installed) ==
    /\ version_valid(expected)
    /\ version_valid(installed)
    /\ strip_trailing_zeros(version_release(expected))
          = strip_trailing_zeros(version_release(installed))

\* C22 as stated: an exact-version check is MISSING when the distribution
\* has no metadata, OK when the installed string equals the expected one or
\* both parse to equal versions, and MISMATCH in every other case; the check
\* imports no module.
C22_Original ==
    (PlatformChecked /\ Supported) =>
        /\ \A i \in ExactEntries :
              LET found == _get_distribution_version(Table[i].distribution) IN
              Report.checks[i].status =
                 (IF found = None THEN MISSING
                  ELSE IF Get(found) = Table[i].version
                          \/ ParseEqual(Table[i].version, Get(found)) THEN OK
                  ELSE MISMATCH)
        /\ {"ultralytics", "packaging"} \cap DOMAIN sys_modules = {}

\* C22 amended: an exact-version check is MISSING when the distribution has
\* no metadata, OK when the installed string equals the expected one, or
\* when packaging can be imported and both strings parse to equal versions,
\* and MISMATCH in every other case.  The check never imports the module of
\* its distribution; it imports packaging, and only when the strings differ.
C22_ExactChecksNeedPackagingToParse ==
    (PlatformChecked /\ Supported) =>
        /\ \A i \in ExactEntries :
              LET found == _get_distribution_version(Table[i].distribution)
                  check == Report.checks[i]
              IN  /\ check.status =
                        (IF found = None THEN MISSING
                         ELSE IF Get(found) = Table[i].version THEN OK
                         ELSE IF "packaging" \in importable
                                 /\ ParseEqual(Table[i].version, Get(found)) THEN OK
                         ELSE MISMATCH)
                  /\ check.import_name = None
                  /\ check.expected_version = Some(Table[i].version)
                  /\ check.installed_version = found
        /\ "ultralytics" \notin DOMAIN sys_modules
        /\ "packaging" \in DOMAIN sys_modules <=>
              /\ "packaging" \in importable
              /\ \E i \in ExactEntries :
                    LET found == _get_distribution_version(Table[i].distribution) IN
                    found # None /\ Get(found) # Table[i].version

C22_Witness ==
    /\ PlatformChecked
    /\ detect_platform = LINUX_ARM64
    /\ "packaging" \in importable
    /\ dists["ultralytics"] = Some(<<"8", ".", "4", ".", "14", ".", "0">>)
    /\ Report.checks[1].status = OK
    /\ dists["tensorrt"] = Some(<<"unknown">>)
    /\ Report.checks[5].status = MISMATCH
    /\ "packaging" \in DOMAIN sys_modules

-----------------------------------------------------------------------------
(* Claims about the layout of the rendered report (SpecPlatform)           *)

\* The checks that get a row: all but the hidden one, in table order.
RowChecks(report) ==
    LET Shown(check) == ~HiddenCheck(report, check)
    IN  SelectSeq(report.checks, Shown)

\* The hidden check failed, so its message is folded into the row of the
\* "TensorRT package" check.
Folded(report, check) ==
    /\ check.label = <<"TensorRT", "package">>
    /\ \E i \in DOMAIN report.checks :
          /\ HiddenCheck(report, report.checks[i])
          /\ report.checks[i].status # OK

RowName(check) ==
    IF check.label = <<"onnxruntime">>
    THEN <<"onnxruntime", "(", "dist", ":", "onnxruntime-gpu", ")">>
    ELSE check.label

\* A row up to its message: the tag, the name, and the expected and
\* installed parts that are present.
RowHead(check) ==
    <<"[", check.status, "]">> \o RowName(check)
    \o (IF check.expected_version = None THEN <<>>
        ELSE <<"expected", "=">> \o Get(check.expected_version))
    \o (IF check.installed_version = None THEN <<>>
        ELSE <<"installed", "=">> \o Get(check.installed_version))

\* The row of a check whose message is its own.
PlainRow(check) ==
    RowHead(check) \o (IF check.message = <<>> THEN <<>> ELSE <<"-">> \o check.message)

\* C23: the text is the platform line, the status line (UNSUPPORTED if not
\* supported, else OK if ok, else FAILED), one row per rendered check in
\* table order in the format [STATUS] name expected=... installed=... -
\* message with absent or empty parts left out, one warning line per warning,
\* and last the Jetson tip, present exactly when the target is Linux-arm64
\* and ok is false.
C23_ReportLayout ==
    PlatformCliRan =>
        LET text == call.stdout
            report == CliReport
            checks == RowChecks(report)
            rows == Len(checks)
            warnings == Len(report.warnings)
            tip == report.platform_target = LINUX_ARM64 /\ ~report.ok
        IN  /\ Len(text) = 2 + rows + warnings + (IF tip THEN 1 ELSE 0)
            /\ text[1] = <<"Platform", "check", ":", report.platform_target, "(",
                           platform.system, platform.machine, ")">>
            /\ text[2] = <<"Status", ":",
                           IF ~report.supported THEN "UNSUPPORTED"
                           ELSE IF report.ok THEN "OK" ELSE "FAILED">>
            /\ \A k \in 1..rows :
                  IF Folded(report, checks[k])
                  THEN /\ StartsWith(text[2 + k], Append(RowHead(checks[k]), "-"))
                       /\ Len(text[2 + k]) > Len(RowHead(checks[k])) + 1
                  ELSE text[2 + k] = PlainRow(checks[k])
            /\ \A j \in 1..warnings :
                  text[2 + rows + j] = <<"warning", ":">> \o report.warnings[j]
            /\ tip => text[Len(text)] = JetsonTip
            /\ \A k \in DOMAIN text : text[k] = JetsonTip => (tip /\ k = Len(text))

C23_Witness ==
    /\ PlatformCliRan
    /\ CliReport.platform_target = LINUX_ARM64
    /\ Len(call.stdout) = 8
    /\ call.stdout[2] = <<"Status", ":", "FAILED">>
    /\ call.stdout[3] = <<"[", "OK", "]", "ultralytics", "expected", "=", "8", ".", "4",
                          ".", "14", "installed", "=", "8", ".", "4", ".", "14">>
    /\ call.stdout[6] = <<"[", "OK", "]", "onnxruntime", "(", "dist", ":",
                          "onnxruntime-gpu", ")", "expected", "=", "1", ".", "23", ".", "0",
                          "installed", "=", "1", ".", "23", ".", "0">>
    /\ call.stdout[7] = <<"[", "MISSING", "]", "TensorRT", "package", "expected", "=",
                          "10", ".", "7", ".", "0", "-", "distribution", "not",
                          "installed">>
    /\ call.stdout[8] = JetsonTip

\* C24: on Linux-arm64 the "TensorRT Python import" check has no row; when
\* its status is not OK its message ends the row of the "TensorRT package"
\* check, after that check's own message and "; " when it has one, and the
\* row keeps the status tag of the package check.  On macOS every check has
\* its row.
C24_HiddenImportCheckIsFolded ==
    PlatformCliRan =>
        LET text == call.stdout
            report == CliReport
        IN  /\ report.platform_target = MACOS =>
                  \A i \in DOMAIN report.checks : text[2 + i] = PlainRow(report.checks[i])
            /\ report.platform_target = LINUX_ARM64 =>
                  LET package == report.checks[5]
                      import == report.checks[6]
                  IN  /\ package.label = <<"TensorRT", "package">>
                      /\ import.label = <<"TensorRT", "Python", "import">>
                      /\ \A k \in DOMAIN text :
                            ~Contains(text[k], <<"TensorRT", "Python", "import">>)
                      /\ Len(text) = 2 + 5 + (IF report.ok THEN 0 ELSE 1)
                      /\ text[7] =
                            (IF import.status = OK THEN PlainRow(package)
                             ELSE IF package.message = <<>>
                             THEN RowHead(package) \o <<"-">> \o import.message
                             ELSE RowHead(package) \o <<"-">> \o package.message
                                  \o <<";">> \o import.message)

C24_Witness ==
    /\ PlatformCliRan
    /\ CliReport.platform_target = LINUX_ARM64
    /\ CliReport.checks[5].status = MISMATCH
    /\ CliReport.checks[6].status = MISSING
    /\ call.stdout[7] = <<"[", "MISMATCH", "]", "TensorRT", "package", "expected", "=",
                          "10", ".", "7", ".", "0", "installed", "=", "10", ".", "8", ".",
                          "0", "-", "version", "mismatch", ";", "import", "failed", ":",
                          "No", "module", "named", "tensorrt">>

-----------------------------------------------------------------------------
(* Claims about the keys of the export kwargs (SpecRequest)                *)

\* C25: the kwargs always hold imgsz, half, int8 and nms with the request's
\* values; they hold project (the output directory as a string) and name
\* (the file name of the model without its extension) exactly when
\* output_dir is set, for both formats; the only other keys that can appear
\* are device, batch and workspace.
C25_BaseAndOutputKwargs ==
    BuiltKwargs =>
        LET kwargs == call.outcome.value IN
        /\ {"imgsz", "half", "int8", "nms"} \subseteq DOMAIN kwargs
        /\ kwargs["imgsz"] = req.imgsz
        /\ kwargs["half"] = req.half
        /\ kwargs["int8"] = req.int8
        /\ kwargs["nms"] = req.nms
        /\ HasKey(kwargs, "project") <=> IsSet(req.output_dir)
        /\ HasKey(kwargs, "name") <=> IsSet(req.output_dir)
        /\ IsSet(req.output_dir) =>
              /\ kwargs["project"] = <<"tmp", "/", "exports">>
              /\ kwargs["name"] \o path_suffix(req.model_path) = path_name(req.model_path)
        /\ DOMAIN kwargs \subseteq
              {"imgsz", "half", "int8", "nms", "project", "name", "device", "batch",
               "workspace"}

C25_Witness ==
    /\ BuiltKwargs
    /\ req.format = COREML
    /\ req.model_path = <<Dir, <<"model", ".", "onnx">>>>
    /\ IsSet(req.output_dir)
    /\ req.half /\ ~req.nms
    /\ DOMAIN call.outcome.value = {"imgsz", "half", "int8", "nms", "project", "name"}
    /\ call.outcome.value["name"] = <<"model">>
    /\ call.outcome.value["project"] = <<"tmp", "/", "exports">>

-----------------------------------------------------------------------------
(* Claims about the shape of every report (SpecPlatform)                   *)

\* C26: in every report ok implies supported; a report for OTHER is not
\* supported and not ok, with no checks and at least one warning; a report
\* for macOS or Linux-arm64 is supported and has checks, the ultralytics
\* check first.  So the platform CLI returns 0 only on a supported platform
\* with every check OK.
C26_ReportShape ==
    /\ PlatformChecked =>
          /\ Report.ok => Report.supported
          /\ Report.platform_target = detect_platform
          /\ Report.platform_target = OTHER_PLATFORM =>
                /\ ~Report.supported
                /\ ~Report.ok
                /\ Report.checks = <<>>
                /\ Report.warnings # <<>>
          /\ Report.platform_target \in {MACOS, LINUX_ARM64} =>
                /\ Report.supported
                /\ Report.checks # <<>>
                /\ Report.checks[1].label = <<"ultralytics">>
                /\ Report.checks[1].distribution = Some("ultralytics")
    /\ (PlatformCliRan /\ ExitCode(0)) =>
          LET report == CliReport IN
          /\ report.supported
          /\ report.platform_target # OTHER_PLATFORM
          /\ \A i \in DOMAIN report.checks : report.checks[i].status = OK

C26_Witness ==
    /\ PlatformChecked
    /\ platform = [system |-> "Windows", machine |-> "AMD64"]
    /\ Report.platform_target = OTHER_PLATFORM
    /\ ~Report.supported
    /\ ~Report.ok
    /\ Report.checks = <<>>
    /\ Report.warnings = <<UnsupportedWarning>>
    /\ dists # EmptyDict

-----------------------------------------------------------------------------
(* Claims about the order of the steps of export_model (SpecExport)        *)

\* The steps of export_model for a format, in the documented order.
DocumentedSteps(format) ==
    <<"validate_request", "build_export_kwargs">>
    \o (IF format = ENGINE THEN <<"_ensure_tensorrt_module_compat">> ELSE <<>>)
    \o <<"_load_yolo_class", "YOLO", "export", "_normalize_output_path">>

\* The steps the call took: its events without the import probes.
StepsTaken ==
    LET IsStep(event) ==
            event \notin {"import tensorrt", "import tensorrt_bindings", "alias tensorrt"}
    IN  SelectSeq(call.events, IsStep)

\* C27: the steps export_model takes are an initial part of validate, build
\* kwargs, compatibility step (ENGINE only), load backend, construct model,
\* export, normalize result; a dry run stops after build kwargs; when
\* validate_request raises nothing else happens: the backend class is not
\* loaded, the alias step is not run, sys.modules is unchanged and the call
\* raises instead of returning an ExportResult.
C27_StepsInOrder ==
    Exported =>
        /\ StepsTaken # <<>>
        /\ Len(StepsTaken) <= Len(DocumentedSteps(req.format))
        /\ StepsTaken = SubSeq(DocumentedSteps(req.format), 1, Len(StepsTaken))
        /\ (RequestValid /\ req.dry_run) => Len(StepsTaken) = 2
        /\ (RequestValid /\ ~req.dry_run) => Len(StepsTaken) > 2
        /\ Returned(call.outcome) /\ ~req.dry_run =>
              StepsTaken = DocumentedSteps(req.format)
        /\ ~RequestValid =>
              /\ call.events = <<"validate_request">>
              /\ sys_modules = EmptyDict
              /\ call.lib_call = None
              /\ Raised(call.outcome, ExportValidationError)

C27_Witness ==
    /\ Exported
    /\ req.format = ENGINE
    /\ ~req.dry_run
    /\ ~RequestValid
    /\ importable = {"ultralytics", "tensorrt_bindings"}
    /\ call.events = <<"validate_request">>
    /\ sys_modules = EmptyDict
    /\ Raised(call.outcome, ExportValidationError)

-----------------------------------------------------------------------------
(* Claims about the order of the steps of the export CLI (SpecCli)         *)

\* The remediation message of the first required module that cannot be
\* imported in this run (torchvision and onnxruntime always can).
PreflightRemedy ==
    IF req.format = COREML THEN CoremltoolsRemedy
    ELSE IF "tensorrt" \notin importable THEN TensorrtRemedy
    ELSE JetsonRemedy("torch")

MismatchWarning == IF req.format = COREML THEN CoremlWarning ELSE EngineWarning

WarningPrinted ==
    \E i \in DOMAIN call.stderr : call.stderr[i] = <<"warning", ":">> \o MismatchWarning

\* C28: main runs the preflight check first.  When a required module is
\* missing, whether or not the request is valid, main returns 2, the only
\* line on stderr is the preflight's remediation message, and export_model
\* is not called: no validation, no backend, no mismatch warning.  When
\* preflight returns, its warnings are printed before export_model is called.
C28_PreflightBeforeExport ==
    MainRan =>
        /\ call.events[1] = "preflight_for_format"
        /\ ~PreflightReturned =>
              /\ ExitCode(2)
              /\ call.stderr = << <<"error", ":">> \o PreflightRemedy >>
              /\ call.stdout = <<>>
              /\ ~Happened("export_model")
              /\ ~Happened("validate_request")
              /\ ~Happened("_load_yolo_class")
              /\ call.lib_call = None
              /\ ~WarningPrinted
        /\ PreflightReturned =>
              /\ Happened("export_model")
              /\ Happened("validate_request")
              /\ EventIndex("preflight_for_format") < EventIndex("export_model")
              /\ EventIndex("export_model") < EventIndex("validate_request")
              /\ WarningPrinted <=> ~FormatMatchesPlatform
              /\ WarningPrinted => call.stderr[1] = <<"warning", ":">> \o MismatchWarning

C28_Witness ==
    /\ MainRan
    /\ req.format = COREML
    /\ platform = [system |-> "Linux", machine |-> "x86_64"]
    /\ "coremltools" \notin importable
    /\ ~path_exists(req.model_path)
    /\ ExitCode(2)
    /\ call.stderr = << <<"error", ":">> \o CoremltoolsRemedy >>
    /\ ~Happened("export_model")

\* Only tensorrt_bindings is there to stand in for tensorrt.
BindingsOnlyHost == "tensorrt" \notin importable /\ "tensorrt_bindings" \in importable

\* C29: on a host where tensorrt cannot be imported and tensorrt_bindings
\* can, an ENGINE export through main ends with exit code 2 and the TensorRT
\* remediation message of preflight, without reaching export_model, the
\* alias step or the backend.  No run of main makes the alias: when the
\* alias step runs after a preflight that returned, tensorrt is already
\* loaded under its own name.
C29_MainNeverAliases ==
    MainRan =>
        /\ (req.format = ENGINE /\ BindingsOnlyHost) =>
              /\ ExitCode(2)
              /\ call.stderr = << <<"error", ":">> \o TensorrtRemedy >>
              /\ ~Happened("export_model")
              /\ ~CompatRan
              /\ ~Happened("_load_yolo_class")
              /\ call.lib_call = None
              /\ {"tensorrt", "tensorrt_bindings", "ultralytics"} \cap DOMAIN sys_modules = {}
        /\ ~Happened("alias tensorrt")
        /\ ~TensorrtAliased
        /\ CompatRan =>
              /\ PreflightReturned
              /\ "tensorrt" \in importable
              /\ sys_modules["tensorrt"] = "tensorrt"
              /\ ~Happened("import tensorrt_bindings")

C29_Witness ==
    /\ MainRan
    /\ req.format = ENGINE
    /\ ~req.dry_run
    /\ path_exists(req.model_path)
    /\ platform = [system |-> "Linux", machine |-> "aarch64"]
    /\ importable = {"tensorrt_bindings", "torch", "torchvision", "onnxruntime",
                     "ultralytics"}
    /\ ExitCode(2)
    /\ sys_modules = EmptyDict
    /\ ~CompatRan

-----------------------------------------------------------------------------
(* Claims about dry-run and real results (SpecExport)                      *)

\* The keys of a serialized dict, in the order they appear in the text.
KeysIn(text) ==
    LET at == {i \in 2..(Len(text) - 2) :
                 text[i - 1] = "\"" /\ text[i + 1] = "\"" /\ text[i + 2] = ":"}
        IsKey(k) == \E i \in at : text[i] = k
    IN  [keys |-> SelectSeq(SortedKeys, IsKey),
         sorted |-> \A i, j \in at :
                       i < j => \E a, b \in DOMAIN SortedKeys :
                                   a < b /\ SortedKeys[a] = text[i] /\ SortedKeys[b] = text[j]]

\* The same request with dry_run the other way round, as the only call of a
\* fresh process on the same host.
TwinOutcome == export_model([req EXCEPT !.dry_run = ~req.dry_run], EmptyDict).outcome

\* A result with the two fields a dry run and a real export may differ in
\* blanked.
Comparable(result) ==
    [result EXCEPT !.output_path = None, !.details = [@ EXCEPT !.dry_run = ""]]

\* C30: for a valid request whose call returns, details["kwargs"] is the
\* key-sorted serialization of the kwargs build_export_kwargs returns; a real
\* export passes exactly these kwargs, and format = request.format, to the
\* backend; a dry run has details["dry_run"] = "true" and output_path None, a
\* real export "false" and the backend's return value when it is a path or
\* a string, None otherwise; and the two results are equal in everything
\* else.
C30_DryRunMatchesRealExport ==
    (Exported /\ RequestValid /\ Returned(call.outcome)) =>
        LET result == call.outcome.value
            kwargs == build_export_kwargs(req)
            serialized == KeysIn(result.details.kwargs)
        IN  /\ result.details.kwargs = json_dumps(kwargs)
            /\ serialized.sorted
            /\ {serialized.keys[i] : i \in DOMAIN serialized.keys} = DOMAIN kwargs
            /\ result.format = req.format
            /\ result.input_model = req.model_path
            /\ req.dry_run =>
                  /\ result.details.dry_run = "true"
                  /\ result.output_path = None
                  /\ call.lib_call = None
            /\ ~req.dry_run =>
                  /\ result.details.dry_run = "false"
                  /\ call.lib_call # None
                  /\ Get(call.lib_call).kwargs = kwargs
                  /\ Get(call.lib_call).format = req.format
                  /\ result.output_path =
                        (IF lib.exported.type \in {"Path", "str"}
                         THEN Some(lib.exported.text) ELSE None)
            /\ Returned(TwinOutcome) =>
                  Comparable(TwinOutcome.value) = Comparable(result)

C30_Witness ==
    /\ Exported
    /\ RequestValid
    /\ ~req.dry_run
    /\ req.format = ENGINE
    /\ IsSet(req.output_dir) /\ IsSet(req.batch) /\ IsSet(req.workspace)
    /\ Returned(call.outcome)
    /\ Returned(TwinOutcome)
    /\ lib.exported = Object("str", OutputFile)
    /\ call.outcome.value.output_path = Some(OutputFile)
    /\ TwinOutcome.value.details.kwargs = call.outcome.value.details.kwargs
    /\ Len(KeysIn(call.outcome.value.details.kwargs).keys) = 9

====
